---------------------------- MODULE Spec2Model ----------------------------
(***************************************************************************)
(* Model of the matching engine of renode-models-analyzer                  *)
(* (ModelsCompare/RenodeModelsCompare/regcompare.py):                      *)
(*   - MatchType: construction, equality and ordering;                     *)
(*   - WordCompare: register_comparator and the run_compare generator,     *)
(*     one step per resumption of the generator;                           *)
(*   - RegCompare.compare_register_group_layout.                           *)
(***************************************************************************)
EXTENDS Integers, Sequences, FiniteSets, TLC

(***************************************************************************)
(* Bounds of the model.                                                    *)
(***************************************************************************)
\* largest denominator of a fraction handed to MatchType
MaxDen == 20
\* integers handed to MatchType range over -IntSlack .. 100 + IntSlack
IntSlack == 3
\* comparators registered on one WordCompare in a session
MaxComparators == 3
\* run_compare calls made on one WordCompare in a session
MaxRuns == 3

(***************************************************************************)
(* IEEE-754 binary64 arithmetic, as far as MatchType.__init__ needs it.    *)
(* Python's int / int is the correctly rounded quotient, float * 100 the   *)
(* correctly rounded product (round to nearest, ties to even), math.ceil   *)
(* is exact.  A non-zero double is [sign, bits, exp]: bits are the 53      *)
(* bits of the significand, most significant first, and its value is       *)
(* sign * (bits read as an integer) * 2^exp.  Zero has bits = << >>.       *)
(***************************************************************************)
MantBits == 53
\* fraction bits produced by the long division: enough for the 53 bits,
\* the guard bit and the leading zero bits of any quotient >= 2^-10
DivDigits == 64

\* number of binary digits of q >= 0
BitLen(q) == Cardinality({i \in 0..30 : 2^i <= q})

\* q in binary, most significant bit first, w digits wide
PadBits(q, w) == [i \in 1..w |-> (q \div 2^(w - i)) % 2]

\* q in binary without leading zeros
IntBits(q) == PadBits(q, BitLen(q))

\* the integer that six bits of bs after offset o spell
Val6(bs, o) ==
    bs[o + 1] * 32 + bs[o + 2] * 16 + bs[o + 3] * 8 + bs[o + 4] * 4
      + bs[o + 5] * 2 + bs[o + 6]

\* the integer that eighteen bits of bs after offset o spell
Val18(bs, o) == Val6(bs, o) * 4096 + Val6(bs, o + 6) * 64 + Val6(bs, o + 12)

\* bs, at most w bits, with zeros put before it to make w bits
PadLeft(bs, w) == [i \in 1..w |-> IF i <= w - Len(bs) THEN 0 ELSE bs[i - (w - Len(bs))]]

\* the integer a bit string of at most 18 bits spells
BitsToInt(bs) == Val18(PadLeft(bs, 18), 0)

\* 2^k mod n, for k < 80 and n < 2^15
Pow2Mod(k, n) ==
    LET q  == 65536 % n
        q2 == (q * q) % n
        a  == k \div 16
        hi == IF a = 0 THEN 1 % n
              ELSE IF a = 1 THEN q
              ELSE IF a = 2 THEN q2
              ELSE IF a = 3 THEN (q2 * q) % n
              ELSE (q2 * q2) % n
    IN  (hi * 2^(k % 16)) % n

\* the remainder left after k bits of the binary expansion of r / n
DivRem(r, n, k) == (r * Pow2Mod(k, n)) % n

\* the next k bits of the binary expansion of r / n, for 0 <= r < n
DivBits(r, n, k) == [i \in 1..k |-> IF 2 * DivRem(r, n, i - 1) >= n THEN 1 ELSE 0]

\* number of zero bits before the first 1 of bs (Len(bs) when there is none)
LeadingZeros(bs) == Cardinality({i \in 1..Len(bs) : \A j \in 1..i : bs[j] = 0})

AnyOne(bs) == \E i \in 1..Len(bs) : bs[i] = 1

\* bs + 1 on a bit string, the carry out prepended
IncBits(bs) ==
    LET ones == Cardinality({i \in 1..Len(bs) : \A j \in i..Len(bs) : bs[j] = 1})
        last == Len(bs) - ones
    IN  IF last = 0 THEN <<1>> \o [i \in 1..Len(bs) |-> 0]
        ELSE [i \in 1..Len(bs) |-> IF i < last THEN bs[i] ELSE IF i = last THEN 1 ELSE 0]

\* round to nearest, ties to even: mant are the 53 kept bits, whose last bit
\* weighs 2^exp, guard the first dropped bit, sticky whether anything
\* non-zero follows it
RoundNearestEven(sign, mant, exp, guard, sticky) ==
    LET up  == guard = 1 /\ (sticky \/ mant[MantBits] = 1)
        inc == IncBits(mant)
    IN  IF ~up THEN [sign |-> sign, bits |-> mant, exp |-> exp]
        ELSE IF Len(inc) = MantBits THEN [sign |-> sign, bits |-> inc, exp |-> exp]
        ELSE [sign |-> sign, bits |-> SubSeq(inc, 1, MantBits), exp |-> exp + 1]

DblZero == [sign |-> 1, bits |-> << >>, exp |-> 0]

\* float(num) / float(den), den > 0: the correctly rounded quotient
DblDiv(num, den) ==
    LET sign   == IF num < 0 THEN -1 ELSE 1
        m      == IF num < 0 THEN -num ELSE num
        ib     == IntBits(m \div den)
        r      == m % den
        stream == ib \o DivBits(r, den, DivDigits)
        z      == LeadingZeros(stream)
        used   == z + MantBits + 1 - Len(ib)
    IN  IF m = 0 THEN DblZero
        ELSE RoundNearestEven(sign, SubSeq(stream, z + 1, z + MantBits),
                              Len(ib) - z - MantBits,
                              stream[z + MantBits + 1],
                              DivRem(r, den, used) # 0)

\* the 53 bits bs times the integer c < 2^12, most significant bit first,
\* without leading zeros: three limbs of 18 bits multiplied with carry
MulBits(bs, c) ==
    LET p   == PadLeft(bs, 54)
        lo  == Val18(p, 36) * c
        mid == Val18(p, 18) * c + lo \div 262144
        hi  == Val18(p, 0) * c + mid \div 262144
    IN  IntBits(hi) \o PadBits(mid % 262144, 18) \o PadBits(lo % 262144, 18)

\* d * c for an integer 0 < c < 2^12: the correctly rounded product
DblMulSmall(d, c) ==
    LET p    == MulBits(d.bits, c)
        drop == Len(p) - MantBits
    IN  IF d.bits = << >> THEN d
        ELSE IF drop = 0 THEN [sign |-> d.sign, bits |-> p, exp |-> d.exp]
        ELSE RoundNearestEven(d.sign, SubSeq(p, 1, MantBits), d.exp + drop,
                              p[MantBits + 1],
                              AnyOne(SubSeq(p, MantBits + 2, Len(p))))

\* math.ceil(d), for |d| < 2^18
DblCeil(d) ==
    LET nint  == MantBits + d.exp
        ipart == IF nint <= 0 THEN 0 ELSE BitsToInt(SubSeq(d.bits, 1, nint))
        frac  == IF nint <= 0 THEN TRUE
                 ELSE AnyOne(SubSeq(d.bits, nint + 1, MantBits))
    IN  IF d.bits = << >> THEN 0
        ELSE IF d.sign = 1 THEN ipart + (IF frac THEN 1 ELSE 0)
        ELSE -ipart

(***************************************************************************)
(* MatchType (regcompare.py, class MatchType).                             *)
(***************************************************************************)
\* The first argument of MatchType(...): a bool, an int, a float given as
\* the quotient num / den that produced it, or a value of another type.
BoolArg(b)       == [kind |-> "bool",  val |-> b]
IntArg(i)        == [kind |-> "int",   val |-> i]
FloatArg(n, d)   == [kind |-> "float", num |-> n, den |-> d]
StrArg           == [kind |-> "str"]

PercentArgs ==
    {BoolArg(b) : b \in BOOLEAN}
      \cup {IntArg(i) : i \in (0 - IntSlack)..(100 + IntSlack)}
      \cup {FloatArg(n, d) : n \in (0 - IntSlack)..(MaxDen + IntSlack), d \in 1..MaxDen}
      \cup {StrArg}

\* percent = ceil(percent * 100), computed in binary64
FloatPercent(num, den) == DblCeil(DblMulSmall(DblDiv(num, den), 100))

\* FloatPercent over the quotients that are handed to MatchType, evaluated once
FloatPercentTable ==
    [num \in (0 - IntSlack)..(MaxDen + IntSlack) |-> [den \in 1..MaxDen |-> FloatPercent(num, den)]]

\* lines 26-29: the float test comes first, then bool, then int
ConvertPercent(arg) ==
    IF arg.kind = "float" THEN FloatPercentTable[arg.num][arg.den]
    ELSE IF arg.kind = "bool" THEN (IF arg.val = FALSE THEN 0 ELSE 100)
    ELSE arg.val

\* a variant of MatchType.__init__ whose range check of line 33 has lost
\* its upper half
MatchTypeInitNoUpper(arg, word_a, word_b, fuzzy_match) ==
    IF arg.kind \notin {"float", "bool", "int"}
    THEN [raised |-> "TypeError"]
    ELSE IF ConvertPercent(arg) < 0
    THEN [raised |-> "ValueError"]
    ELSE [raised |-> "none",
          obj |-> [percent     |-> ConvertPercent(arg),
                   cutoff      |-> 0,
                   word_a      |-> word_a,
                   word_b      |-> word_b,
                   fuzzy_match |-> fuzzy_match,
                   comp_name   |-> ""]]

\* MatchType.__init__: the constructed object, or the exception raised
MatchTypeInit(arg, word_a, word_b, fuzzy_match) ==
    LET percent == ConvertPercent(arg)
    IN  IF arg.kind \notin {"float", "bool", "int"}
        THEN [raised |-> "TypeError"]
        ELSE IF percent < 0 \/ percent > 100
        THEN [raised |-> "ValueError"]
        ELSE [raised |-> "none",
              obj |-> [percent     |-> percent,
                       cutoff      |-> 0,
                       word_a      |-> word_a,
                       word_b      |-> word_b,
                       fuzzy_match |-> fuzzy_match,
                       comp_name   |-> ""]]

Exact(word_a, word_b, is_fuzzy) == MatchTypeInit(IntArg(100), word_a, word_b, is_fuzzy).obj
NoMatch(word_a, word_b)         == MatchTypeInit(IntArg(0), word_a, word_b, FALSE).obj

\* a variant of __eq__ that also looks at the fuzzy flag
MatchEqWithFlag(a, b) == a.percent = b.percent /\ a.fuzzy_match = b.fuzzy_match

\* __eq__ and __lt__; functools.total_ordering derives the rest from them
MatchEq(a, b) == a.percent = b.percent
MatchLt(a, b) == a.percent < b.percent
MatchGt(a, b) == ~MatchLt(a, b) /\ ~MatchEq(a, b)
MatchLe(a, b) == MatchLt(a, b) \/ MatchEq(a, b)
MatchGe(a, b) == ~MatchLt(a, b)

\* Python's max(a, b): b only if b > a, so a tie keeps the first argument
PyMax(a, b) == IF MatchGt(b, a) THEN b ELSE a

\* the words the model compares
Words == {"TxData", "RxData", "STATUS", ""}

None == [none |-> TRUE]

\* no generator object exists
GenNone == [pc |-> "none"]

(***************************************************************************)
(* Comparators (regcompare.py, classes Comparator, MatchSimple,            *)
(* MatchRelaxed, MatchFirstLetters).  A comparator object is its class and *)
(* its is_fuzzy flag; Comparator.name is the class name, so the strict and *)
(* the fuzzy instance of a class share one name.                           *)
(***************************************************************************)
Comparator(cls, is_fuzzy) == [cls |-> cls, is_fuzzy |-> is_fuzzy]

\* the five objects compare_register_group_layout creates (lines 373-374)
MatchSimple         == Comparator("MatchSimple", FALSE)
MatchRelaxed        == Comparator("MatchRelaxed", FALSE)
MatchFirstLetters   == Comparator("MatchFirstLetters", FALSE)
MatchRelaxedFz      == Comparator("MatchRelaxed", TRUE)
MatchFirstLettersFz == Comparator("MatchFirstLetters", TRUE)

Comparators == {MatchSimple, MatchRelaxed, MatchFirstLetters,
                MatchRelaxedFz, MatchFirstLettersFz}

CompName(comp) == comp.cls

\* what the default tokenizer pipeline makes of the words: TxData and
\* RxData split at the case change, STATUS stays whole, and the empty word
\* leaves no token (Tokenizer._rem_empty)
Tokens(w) ==
    IF w = "TxData" THEN <<"Tx", "Data">>
    ELSE IF w = "RxData" THEN <<"Rx", "Data">>
    ELSE IF w = "" THEN << >>
    ELSE <<w>>

\* the initials of the tokens, which MatchFirstLetters tries first and
\* skips when they are a single character
Initials(w) ==
    IF w = "TxData" THEN "TD" ELSE IF w = "RxData" THEN "RD" ELSE w

MaxOf(x, y) == IF x >= y THEN x ELSE y

\* token positions at which the two words hold equal tokens (no two
\* distinct tokens of these words are synonyms or within the Levenshtein
\* cutoff of one another: "tx" and "rx" have ratio 0.5 < 0.75)
MatchedPositions(a, b) ==
    Cardinality({i \in 1..Len(Tokens(a)) :
                    i <= Len(Tokens(b)) /\ Tokens(a)[i] = Tokens(b)[i]})

\* comp.match(word_a, word_b) after comp.reset().inject(...), with the
\* synonym generator and the names of lines 368-371, on the words above:
\*   MatchSimple        MatchType(matched_exact / tokens_parsed, a, b), or
\*                      ZeroDivisionError when neither word has a token
\*   MatchRelaxed       MatchType(matched_exact / max_total_tokens, a, b, is_fuzzy)
\*                      or NoMatch(a, b) when no pair of tokens was compared
\*   MatchFirstLetters  the first pair of joined strings that compares equal:
\*                      Exact(join_a, join_b) when strict, MatchType(ratio, ...)
\*                      when fuzzy, where ratio is True for equal strings and
\*                      1 - 1/6 for "txdata" against "rxdata"; else NoMatch
MatchOf(comp, a, b) ==
    LET total   == MaxOf(Len(Tokens(a)), Len(Tokens(b)))
        matched == MatchedPositions(a, b)
    IN  IF comp.cls = "MatchSimple"
        THEN (IF total = 0
              THEN \* line 193 divides by tokens_parsed = 0
                   [raised |-> "ZeroDivisionError"]
              ELSE MatchTypeInit(FloatArg(matched, total), a, b, FALSE).obj)
        ELSE IF Len(Tokens(a)) = 0 \/ Len(Tokens(b)) = 0
        THEN \* line 293 when tokens_parsed = 0; for MatchFirstLetters no
             \* sentence is generated and line 353 gives its default
             NoMatch(a, b)
        ELSE IF comp.cls = "MatchRelaxed"
        THEN MatchTypeInit(FloatArg(matched, total), a, b, comp.is_fuzzy).obj
        ELSE IF a = b
        THEN (IF comp.is_fuzzy
              THEN MatchTypeInit(BoolArg(TRUE), Initials(a), Initials(b), TRUE).obj
              ELSE Exact(Initials(a), Initials(b), FALSE))
        ELSE IF comp.is_fuzzy /\ {a, b} = {"TxData", "RxData"}
        THEN MatchTypeInit(FloatArg(5, 6), a, b, TRUE).obj
        ELSE NoMatch(a, b)

\* the results of the comparators on all words, computed once
MatchTable == [comp \in Comparators |-> [a \in Words |-> [b \in Words |-> MatchOf(comp, a, b)]]]

CompMatch(comp, a, b) == MatchTable[comp][a][b]

(***************************************************************************)
(* State.                                                                  *)
(***************************************************************************)
VARIABLES
    mt_arg,     \* the arguments of a MatchType(...) call
    mt_made,    \* what that call gave: an object or an exception
    mt_ops,     \* two MatchType objects to be compared
    mt_cmp,     \* the outcome of comparing them
    \* WordCompare (lines 84-91)
    comparators,        \* self.comparators
    fuzzy_comparators,  \* self.fuzzy_comparators
    matches,            \* self.matches: comparator name -> list of MatchType
    best_matches,       \* self.best_matches: (word_a, word_b) -> MatchType
    unmatched,          \* self.unmatched
    runs,               \* self.runs
    \* the generator object of the run_compare call in progress
    gen,
    \* what the caller has got from it: the (name, match) pairs yielded by
    \* this call, and by all calls of the session
    yielded,
    produced,
    \* compare_register_group_layout: its locals and position, and what it returned
    rc,
    result,
    \* the register_comparator calls made on the WordCompare, in order
    registered,
    \* SynonymsGen.get_word_synonyms: the generator's settings, the word and
    \* what was yielded for it
    syn,
    \* WordGen: self.sentences and the groups handed to add_tokens
    wg,
    \* TokenizerPipeline: its word, self.tokens and the stages run so far
    tk,
    \* MatchSimple.match: its token lists, its position and its counters
    ms,
    \* match_most_similar: its argument, its position and what it returned
    mm,
    \* MatchRelaxed.match or MatchFirstLetters.match: the object, its filtered
    \* token lists, its position and its counters
    mr

mt_vars == <<mt_arg, mt_made, mt_ops, mt_cmp>>
wc_vars == <<registered, comparators, fuzzy_comparators, matches, best_matches, unmatched, runs>>
gen_vars == <<gen, yielded, produced>>
rc_vars == <<rc, result>>
lib_vars == <<syn, wg, tk, ms, mm, mr>>

vars == <<mt_vars, wc_vars, gen_vars, rc_vars, lib_vars>>

(***************************************************************************)
(* WordCompare (regcompare.py, lines 75-148).                              *)
(***************************************************************************)
\* WordCompare.__init__
WCNew ==
    /\ registered = << >>
    /\ comparators = << >>
    /\ fuzzy_comparators = << >>
    /\ matches = << >>
    /\ best_matches = << >>
    /\ unmatched = << >>
    /\ runs = 0

\* a dict with key k set to v
DictSet(d, k, v) == [x \in DOMAIN d \cup {k} |-> IF x = k THEN v ELSE d[x]]
\* del d[k]
DictDel(d, k) == [x \in DOMAIN d \ {k} |-> d[x]]
\* d.get(k, default)
DictGet(d, k, default) == IF k \in DOMAIN d THEN d[k] ELSE default

\* register_comparator(comp, fuzzy), lines 98-105, on a WordCompare whose
\* lists and match log are wc: the lists and the log afterwards
Registered(wc, comp, fuzzy) ==
    [comparators       |-> IF comp.is_fuzzy \/ fuzzy THEN wc.comparators
                           ELSE Append(wc.comparators, comp),
     fuzzy_comparators |-> IF comp.is_fuzzy \/ fuzzy THEN Append(wc.fuzzy_comparators, comp)
                           ELSE wc.fuzzy_comparators,
     matches           |-> DictSet(wc.matches, CompName(comp), << >>)]

\* the lists and the match log of self
Registry ==
    [comparators |-> comparators, fuzzy_comparators |-> fuzzy_comparators,
     matches |-> matches]

RegisterComparator(comp, fuzzy) ==
    /\ comparators' = Registered(Registry, comp, fuzzy).comparators
    /\ fuzzy_comparators' = Registered(Registry, comp, fuzzy).fuzzy_comparators
    /\ matches' = Registered(Registry, comp, fuzzy).matches
    /\ registered' = Append(registered, [comp |-> comp, fuzzy |-> fuzzy])
    /\ UNCHANGED <<best_matches, unmatched, runs>>

\* a variant of run_compare that counts the run when it is called
RunCompareCounting(word_a, word_b, fallback_fuzzy) ==
    /\ gen' = [pc |-> "created", word_a |-> word_a, word_b |-> word_b,
               fallback_fuzzy |-> fallback_fuzzy]
    /\ yielded' = << >>
    /\ runs' = runs + 1
    /\ UNCHANGED <<registered, comparators, fuzzy_comparators, matches,
                   best_matches, unmatched, produced>>

\* run_compare(word_a, word_b, fallback_fuzzy): the call only creates the
\* generator; no line of the body runs before the first next()
RunCompare(word_a, word_b, fallback_fuzzy) ==
    /\ gen' = [pc |-> "created", word_a |-> word_a, word_b |-> word_b,
               fallback_fuzzy |-> fallback_fuzzy]
    /\ yielded' = << >>
    /\ UNCHANGED <<wc_vars, produced>>

\* a variant of the test of line 128 with > in place of ==
FoundExactAbove(match, word_a, word_b) == MatchGt(match, Exact(word_a, word_b, FALSE))

\* line 128: the result just yielded is an exact match
FoundExact(match, word_a, word_b) == MatchEq(match, Exact(word_a, word_b, FALSE))

\* a variant of the test of line 142 with < in place of <=
NothingMatchedBelow(match_best, word_a, word_b) ==
    MatchLt(match_best, NoMatch(word_a, word_b))

\* line 142: no comparator of this call did better than NoMatch
NothingMatched(match_best, word_a, word_b) ==
    ~MatchGt(match_best, NoMatch(word_a, word_b))

\* lines 117-127: the result match of the comparator called name is logged,
\* folded into the best results and yielded; the generator is suspended at
\* element idx of list
YieldMatch(name, match, list, idx, match_best) ==
    /\ matches' = [matches EXCEPT ![name] = Append(@, match)]
    /\ best_matches' =
           DictSet(best_matches, <<gen.word_a, gen.word_b>>,
                   PyMax(DictGet(best_matches, <<gen.word_a, gen.word_b>>,
                                 NoMatch(gen.word_a, gen.word_b)), match))
    /\ gen' = [pc |-> "suspended", word_a |-> gen.word_a, word_b |-> gen.word_b,
               fallback_fuzzy |-> gen.fallback_fuzzy,
               match_best |-> PyMax(match_best, match),
               list |-> list, idx |-> idx, match |-> match]
    /\ yielded' = Append(yielded, <<name, match>>)
    /\ produced' = Append(produced, [pair |-> <<gen.word_a, gen.word_b>>,
                                     name |-> name, match |-> match])
    /\ UNCHANGED <<registered, comparators, fuzzy_comparators, unmatched>>

\* comp.match(word_a, word_b) at line 117 raises instead of returning
Raises(comp, a, b) == "raised" \in DOMAIN CompMatch(comp, a, b)

\* a variant in which the failure of line 117 ends the call like a call in
\* which nothing matched
MatchRaisedUnmatched ==
    /\ gen' = [gen EXCEPT !.pc = "ZeroDivisionError"]
    /\ unmatched' = Append(unmatched, <<gen.word_a, gen.word_b>>)
    /\ UNCHANGED <<registered, comparators, fuzzy_comparators, matches, best_matches,
                   yielded, produced>>

\* the exception of line 117 is not caught by line 139 and leaves the
\* generator, which is finished; lines 120-127 and 142-145 are not run
MatchRaised ==
    /\ gen' = [gen EXCEPT !.pc = "ZeroDivisionError"]
    /\ UNCHANGED <<registered, comparators, fuzzy_comparators, matches, best_matches,
                   unmatched, yielded, produced>>

\* lines 114-127: one pass of the loop of run_cmp over comparator comp,
\* which is element idx of list, up to the yield
Invoke(comp, list, idx, match_best) ==
    IF Raises(comp, gen.word_a, gen.word_b)
    THEN MatchRaised
    ELSE YieldMatch(CompName(comp),
                    [CompMatch(comp, gen.word_a, gen.word_b) EXCEPT !.comp_name = CompName(comp)],
                    list, idx, match_best)

\* a variant of lines 142-145 with the del before the append
FinishDeleteFirst(match_best) ==
    /\ IF NothingMatched(match_best, gen.word_a, gen.word_b)
       THEN IF <<gen.word_a, gen.word_b>> \in DOMAIN best_matches
            THEN /\ best_matches' = DictDel(best_matches, <<gen.word_a, gen.word_b>>)
                 /\ unmatched' = Append(unmatched, <<gen.word_a, gen.word_b>>)
                 /\ gen' = [gen EXCEPT !.pc = "returned"]
            ELSE /\ UNCHANGED <<best_matches, unmatched>>
                 /\ gen' = [gen EXCEPT !.pc = "KeyError"]
       ELSE /\ gen' = [gen EXCEPT !.pc = "returned"]
            /\ UNCHANGED <<unmatched, best_matches>>
    /\ UNCHANGED <<registered, comparators, fuzzy_comparators, matches, yielded, produced>>

\* a variant of lines 142-145 that leaves the pair's entry in best_matches
FinishKeepEntry(match_best) ==
    /\ IF NothingMatched(match_best, gen.word_a, gen.word_b)
       THEN /\ unmatched' = Append(unmatched, <<gen.word_a, gen.word_b>>)
            /\ UNCHANGED best_matches
            /\ gen' = [gen EXCEPT !.pc = IF <<gen.word_a, gen.word_b>> \in DOMAIN best_matches
                                         THEN "returned" ELSE "KeyError"]
       ELSE /\ gen' = [gen EXCEPT !.pc = "returned"]
            /\ UNCHANGED <<unmatched, best_matches>>
    /\ UNCHANGED <<registered, comparators, fuzzy_comparators, matches, yielded, produced>>

\* a variant of lines 142-145 that appends the pair to unmatched whatever
\* match_best is
FinishAppendAlways(match_best) ==
    /\ unmatched' = Append(unmatched, <<gen.word_a, gen.word_b>>)
    /\ IF NothingMatched(match_best, gen.word_a, gen.word_b)
       THEN IF <<gen.word_a, gen.word_b>> \in DOMAIN best_matches
            THEN /\ best_matches' = DictDel(best_matches, <<gen.word_a, gen.word_b>>)
                 /\ gen' = [gen EXCEPT !.pc = "returned"]
            ELSE /\ UNCHANGED best_matches
                 /\ gen' = [gen EXCEPT !.pc = "KeyError"]
       ELSE /\ gen' = [gen EXCEPT !.pc = "returned"]
            /\ UNCHANGED best_matches
    /\ UNCHANGED <<registered, comparators, fuzzy_comparators, matches, yielded, produced>>

\* lines 142-145, reached when both loops are exhausted
Finish(match_best) ==
    LET a == gen.word_a
        b == gen.word_b
    IN  /\ IF NothingMatched(match_best, a, b)
           THEN /\ unmatched' = Append(unmatched, <<a, b>>)
                /\ IF <<a, b>> \in DOMAIN best_matches
                   THEN /\ best_matches' = DictDel(best_matches, <<a, b>>)
                        /\ gen' = [gen EXCEPT !.pc = "returned"]
                   ELSE /\ UNCHANGED best_matches
                        /\ gen' = [gen EXCEPT !.pc = "KeyError"]
           ELSE /\ gen' = [gen EXCEPT !.pc = "returned"]
                /\ UNCHANGED <<unmatched, best_matches>>
        /\ UNCHANGED <<registered, comparators, fuzzy_comparators, matches, yielded, produced>>

\* a variant of the loops that runs the fuzzy comparators whatever
\* fallback_fuzzy is
NextPositionAnyFallback(list, idx) ==
    IF list = "comparators" /\ idx < Len(comparators)
    THEN [list |-> "comparators", idx |-> idx + 1]
    ELSE IF list = "comparators" /\ Len(fuzzy_comparators) > 0
    THEN [list |-> "fuzzy_comparators", idx |-> 1]
    ELSE IF list = "fuzzy_comparators" /\ idx < Len(fuzzy_comparators)
    THEN [list |-> "fuzzy_comparators", idx |-> idx + 1]
    ELSE [list |-> "end", idx |-> 0]

\* where the loops of lines 113 and 132-136 stand next, after element idx
\* of list: the next primary comparator, else the fuzzy ones if
\* fallback_fuzzy, else the end
NextPosition(list, idx) ==
    IF list = "comparators" /\ idx < Len(comparators)
    THEN [list |-> "comparators", idx |-> idx + 1]
    ELSE IF list = "comparators" /\ gen.fallback_fuzzy /\ Len(fuzzy_comparators) > 0
    THEN [list |-> "fuzzy_comparators", idx |-> 1]
    ELSE IF list = "fuzzy_comparators" /\ idx < Len(fuzzy_comparators)
    THEN [list |-> "fuzzy_comparators", idx |-> idx + 1]
    ELSE [list |-> "end", idx |-> 0]

\* element idx of self.comparators or self.fuzzy_comparators
ComparatorAt(list, idx) ==
    IF list = "comparators" THEN comparators[idx] ELSE fuzzy_comparators[idx]

\* the generator runs on from position idx of list until its next yield or
\* its end (lines 113, 132-136, 142)
Advance(list, idx, match_best) ==
    IF NextPosition(list, idx).list = "end"
    THEN Finish(match_best)
    ELSE Invoke(ComparatorAt(NextPosition(list, idx).list, NextPosition(list, idx).idx),
                NextPosition(list, idx).list, NextPosition(list, idx).idx, match_best)

\* the first next() on the generator: lines 108-109, then the loops
GenStart ==
    /\ gen.pc = "created"
    /\ runs' = runs + 1
    /\ Advance("comparators", 0, NoMatch(gen.word_a, gen.word_b))

\* a later next(): the generator resumes after the yield of line 127
GenResume ==
    /\ gen.pc = "suspended"
    /\ UNCHANGED runs
    /\ IF FoundExact(gen.match, gen.word_a, gen.word_b)
       THEN \* raise GeneratorExit, caught at line 139: return
            /\ gen' = [gen EXCEPT !.pc = "returned"]
            /\ UNCHANGED <<registered, comparators, fuzzy_comparators, matches, best_matches,
                           unmatched, yielded, produced>>
       ELSE Advance(gen.list, gen.idx, gen.match_best)

\* the caller stops iterating and drops the generator: close() raises
\* GeneratorExit at the yield of line 127, line 139 catches it and the
\* generator returns
GenClose ==
    /\ gen.pc = "suspended"
    /\ gen' = [gen EXCEPT !.pc = "closed"]
    /\ UNCHANGED <<wc_vars, yielded, produced>>

\* no run_compare call is in progress
Quiescent == gen.pc \in {"none", "returned", "KeyError", "ZeroDivisionError", "closed"}

(***************************************************************************)
(* MatchType construction and comparison.                                  *)
(***************************************************************************)
\* percent arguments of the objects that are compared with one another
CmpArgs == {BoolArg(FALSE), IntArg(0), IntArg(11), IntArg(20), FloatArg(1, 5),
            IntArg(100), BoolArg(TRUE)}
CmpNames == {"", "MatchSimple"}

MTObjects ==
    {[MatchTypeInit(arg, wa, "TxData", fz).obj EXCEPT !.comp_name = cn] :
        arg \in CmpArgs, wa \in {"TxData", "STATUS"}, fz \in BOOLEAN, cn \in CmpNames}

\* nothing has been constructed or compared yet
MTIdleState ==
    /\ mt_arg = None
    /\ mt_made = None
    /\ mt_ops = None
    /\ mt_cmp = None

\* compare_register_group_layout has not been called
RCIdle == [pc |-> "idle"]

\* nothing has been called yet on any object
Idle ==
    /\ MTIdleState
    /\ WCNew
    /\ gen = GenNone /\ yielded = << >> /\ produced = << >>
    /\ rc = RCIdle /\ result = None
    /\ syn = None /\ wg = None /\ tk = None /\ ms = None /\ mm = None /\ mr = None

MTInit == Idle

MTIdle == mt_arg = None /\ mt_ops = None

\* MatchType(percent, "TxData", "RxData", fuzzy_match)
MTConstruct ==
    /\ MTIdle
    /\ \E arg \in PercentArgs, fz \in BOOLEAN :
          /\ mt_arg' = [percent |-> arg, fuzzy_match |-> fz]
          /\ mt_made' = MatchTypeInit(arg, "TxData", "RxData", fz)
    /\ UNCHANGED <<mt_ops, mt_cmp, wc_vars, gen_vars, rc_vars, lib_vars>>

\* a == b, a < b, a > b, a <= b, a >= b on two MatchType objects
MTCompare ==
    /\ MTIdle
    /\ \E a \in MTObjects, b \in MTObjects :
          /\ mt_ops' = [a |-> a, b |-> b]
          /\ mt_cmp' = [eq |-> MatchEq(a, b), lt |-> MatchLt(a, b),
                        gt |-> MatchGt(a, b), le |-> MatchLe(a, b),
                        ge |-> MatchGe(a, b)]
    /\ UNCHANGED <<mt_arg, mt_made, wc_vars, gen_vars, rc_vars, lib_vars>>

MTNext == MTConstruct \/ MTCompare

SpecMT == MTInit /\ [][MTNext]_vars

(***************************************************************************)
(* A session on one WordCompare: any sequence of register_comparator and   *)
(* run_compare calls, each generator consumed to its end by the caller     *)
(* before the next call is made.                                           *)
(***************************************************************************)
\* the word pairs the session compares
SessionPairs == {<<"TxData", "RxData">>, <<"TxData", "TxData">>}
\* the comparator objects the session registers
SessionComparators == {MatchSimple, MatchFirstLetters, MatchFirstLettersFz}
\* the register_comparator calls of the session: a strict comparator with
\* and without the fuzzy override, a fuzzy one without it
SessionRegistrations ==
    {r \in [comp : SessionComparators, fuzzy : BOOLEAN] :
        r.fuzzy => r.comp = MatchSimple}

Init == Idle

Register ==
    /\ Quiescent
    /\ Len(comparators) + Len(fuzzy_comparators) < MaxComparators
    /\ \E r \in SessionRegistrations : RegisterComparator(r.comp, r.fuzzy)
    /\ UNCHANGED <<lib_vars, mt_vars, gen_vars, rc_vars>>

Call ==
    /\ Quiescent
    /\ runs < MaxRuns
    /\ \E pair \in SessionPairs, fallback_fuzzy \in BOOLEAN :
          RunCompare(pair[1], pair[2], fallback_fuzzy)
    /\ UNCHANGED <<lib_vars, mt_vars, rc_vars>>

NextFirst == GenStart /\ UNCHANGED <<lib_vars, mt_vars, rc_vars>>

NextLater == GenResume /\ UNCHANGED <<lib_vars, mt_vars, rc_vars>>

Next == Register \/ Call \/ NextFirst \/ NextLater

Spec == Init /\ [][Next]_vars

\* a session whose caller may also stop iterating over a generator before
\* it is exhausted
Abandon == GenClose /\ UNCHANGED <<lib_vars, mt_vars, rc_vars>>

NextLazy == Next \/ Abandon

SpecLazy == Init /\ [][NextLazy]_vars

(***************************************************************************)
(* RegCompare.compare_register_group_layout (regcompare.py, lines          *)
(* 363-421), with match_names true.  A register is its Offset and its      *)
(* Name; a RegistersGroup holds its registers sorted by Offset.            *)
(***************************************************************************)
\* registers in one group
MaxRegs == 3

Offsets == {0, 4, 8}

\* the register names of regs1 and of regs2
Names1 == {"TxData", "STATUS"}
Names2 == {"TxData", "RxData"}

\* regs1.peripheral_name and regs2.peripheral_name
Peripheral1 == "UART"
Peripheral2 == "SPI"

\* the register lists of at most MaxRegs registers with these names, in
\* the order RegistersGroup.__init__ leaves them in
Groups(names) ==
    UNION {{g \in [1..n -> [Offset : Offsets, Name : names]] :
               \A i \in 1..(n - 1) : g[i].Offset <= g[i + 1].Offset} : n \in 0..MaxRegs}

\* Python ints and floats among the fields of the result
PyInt(v) == [kind |-> "int", val |-> v]
PyFloat(d) == [kind |-> "float", dbl |-> d]

\* a variant of create_dict in which a key keeps the value of its first
\* insertion
CreateDictFirst(regs) ==
    [keys |-> [k \in 1..Cardinality({regs[i].Offset : i \in 1..Len(regs)}) |->
                 regs[CHOOSE i \in 1..Len(regs) :
                        /\ \A j \in 1..(i - 1) : regs[j].Offset # regs[i].Offset
                        /\ Cardinality({regs[j].Offset : j \in 1..(i - 1)}) = k - 1].Offset],
     at   |-> [off \in {regs[i].Offset : i \in 1..Len(regs)} |->
                 regs[CHOOSE i \in 1..Len(regs) :
                        /\ regs[i].Offset = off
                        /\ \A j \in 1..(i - 1) : regs[j].Offset # off]]]

\* create_dict, lines 364-365: a key keeps the place of its first
\* insertion and the value of its last
CreateDict(regs) ==
    [keys |-> [k \in 1..Cardinality({regs[i].Offset : i \in 1..Len(regs)}) |->
                 regs[CHOOSE i \in 1..Len(regs) :
                        /\ \A j \in 1..(i - 1) : regs[j].Offset # regs[i].Offset
                        /\ Cardinality({regs[j].Offset : j \in 1..(i - 1)}) = k - 1].Offset],
     at   |-> [off \in {regs[i].Offset : i \in 1..Len(regs)} |->
                 regs[CHOOSE i \in 1..Len(regs) :
                        /\ regs[i].Offset = off
                        /\ \A j \in (i + 1)..Len(regs) : regs[j].Offset # off]]]

\* lines 368-374: the WordCompare with its five comparators registered
RegisterAll ==
    Registered(Registered(Registered(Registered(Registered(
        [comparators |-> << >>, fuzzy_comparators |-> << >>, matches |-> << >>],
        MatchSimple, FALSE), MatchRelaxed, FALSE), MatchFirstLetters, FALSE),
        MatchRelaxedFz, FALSE), MatchFirstLettersFz, FALSE)

\* a variant of line 414 that reports 0 when nothing was compared
UnmatchedPctZero(unmatched_cnt, nruns) ==
    IF nruns = 0 THEN PyInt(0) ELSE PyFloat(DblDiv(unmatched_cnt * 100, nruns))

\* line 414
UnmatchedPct(unmatched_cnt, nruns) ==
    IF nruns = 0 THEN PyInt(100) ELSE PyFloat(DblDiv(unmatched_cnt * 100, nruns))

RECURSIVE SumMatch(_, _)
\* sum(i.match for i in d.values()) over the keys ks of d
SumMatch(d, ks) ==
    IF ks = {} THEN 0
    ELSE LET k == CHOOSE x \in ks : TRUE
         IN  d[k].percent + SumMatch(d, ks \ {k})

\* a variant of lines 416-417 with // in place of /
AvgCertaintyFloor(d) ==
    IF Cardinality(DOMAIN d) = 0 THEN PyInt(0)
    ELSE PyInt(SumMatch(d, DOMAIN d) \div Cardinality(DOMAIN d))

\* lines 416-417
AvgCertainty(d) ==
    IF Cardinality(DOMAIN d) = 0 THEN PyInt(0)
    ELSE PyFloat(DblDiv(SumMatch(d, DOMAIN d), Cardinality(DOMAIN d)))

\* line 357
CompareResult(PeripheralPair, LeftHeavy, RightHeavy, Unmatched, Avg) ==
    [PeripheralPair |-> PeripheralPair, LeftHeavy |-> LeftHeavy,
     RightHeavy |-> RightHeavy, Unmatched |-> Unmatched, Avg |-> Avg]

\* RegCompare(regs1, regs2).compare_register_group_layout() is entered:
\* lines 367-378
RCEnter(names1, names2) ==
    /\ rc.pc = "idle"
    /\ \E regs1 \in Groups(names1), regs2 \in Groups(names2) :
          rc' = [pc |-> "loop2", regs1 |-> regs1, regs2 |-> regs2,
                 offs1 |-> CreateDict(regs1), offs2 |-> CreateDict(regs2),
                 i |-> 0, reg1_heavy |-> 0, reg2_heavy |-> 0, calls |-> << >>]
    /\ comparators' = RegisterAll.comparators
    /\ fuzzy_comparators' = RegisterAll.fuzzy_comparators
    /\ matches' = RegisterAll.matches
    /\ registered' = <<[comp |-> MatchSimple, fuzzy |-> FALSE],
                       [comp |-> MatchRelaxed, fuzzy |-> FALSE],
                       [comp |-> MatchFirstLetters, fuzzy |-> FALSE],
                       [comp |-> MatchRelaxedFz, fuzzy |-> FALSE],
                       [comp |-> MatchFirstLettersFz, fuzzy |-> FALSE]>>
    /\ UNCHANGED <<best_matches, unmatched, runs, gen_vars, mt_vars, lib_vars, result>>

RCBegin == RCEnter(Names1, Names2)

\* one pass of the loop over offs2.items(), lines 379-393, up to the call
\* of run_compare or to the end of the pass
RCLoop2 ==
    /\ rc.pc = "loop2"
    /\ rc.i < Len(rc.offs2.keys)
    /\ IF rc.offs2.keys[rc.i + 1] \in DOMAIN rc.offs1.at
       THEN /\ RunCompare(rc.offs2.at[rc.offs2.keys[rc.i + 1]].Name,
                          rc.offs1.at[rc.offs2.keys[rc.i + 1]].Name, TRUE)
            /\ rc' = [rc EXCEPT !.pc = "running", !.i = @ + 1,
                        !.calls = Append(@, [off |-> rc.offs2.keys[rc.i + 1],
                                             word_a |-> gen'.word_a,
                                             word_b |-> gen'.word_b,
                                             fallback_fuzzy |-> gen'.fallback_fuzzy])]
       ELSE /\ rc' = [rc EXCEPT !.i = @ + 1, !.reg1_heavy = @ + 1]
            /\ UNCHANGED <<wc_vars, gen_vars>>
    /\ UNCHANGED <<lib_vars, mt_vars, result>>

\* where the for loop of line 387 stands once the generator has got to g
AfterNext(g) ==
    IF g.pc = "returned" THEN "loop2"
    ELSE IF g.pc \in {"KeyError", "ZeroDivisionError"} THEN "raised"
    ELSE "running"

\* the for loop of line 387 asks the generator for its first result
RCFirst ==
    /\ rc.pc = "running"
    /\ GenStart
    /\ rc' = [rc EXCEPT !.pc = AfterNext(gen')]
    /\ UNCHANGED <<lib_vars, mt_vars, result>>

\* the for loop of line 387 asks for a further result
RCLater ==
    /\ rc.pc = "running"
    /\ GenResume
    /\ rc' = [rc EXCEPT !.pc = AfterNext(gen')]
    /\ UNCHANGED <<lib_vars, mt_vars, result>>

\* the loop over offs1.items(), lines 394-397
RCLoop1 ==
    /\ rc.pc = "loop2"
    /\ rc.i = Len(rc.offs2.keys)
    /\ rc' = [rc EXCEPT !.pc = "summary",
                !.reg2_heavy = Cardinality({k \in 1..Len(rc.offs1.keys) :
                                              rc.offs1.keys[k] \notin DOMAIN rc.offs2.at})]
    /\ UNCHANGED <<lib_vars, mt_vars, wc_vars, gen_vars, result>>

\* lines 402-419: the summary is computed and returned
RCReturn ==
    /\ rc.pc = "summary"
    /\ result' = CompareResult(<<Peripheral1, Peripheral2>>, rc.reg1_heavy, rc.reg2_heavy,
                               UnmatchedPct(Len(unmatched), runs),
                               AvgCertainty(best_matches))
    /\ rc' = [rc EXCEPT !.pc = "done"]
    /\ UNCHANGED <<lib_vars, mt_vars, wc_vars, gen_vars>>

RCNext == RCBegin \/ RCLoop2 \/ RCFirst \/ RCLater \/ RCLoop1 \/ RCReturn

SpecRC == Idle /\ [][RCNext]_vars

(***************************************************************************)
(* Words without tokens.  A program either drives a WordCompare of its own *)
(* with run_compare on pairs that hold the empty word, or compares         *)
(* register groups in which registers have the empty name.                 *)
(***************************************************************************)
\* the pairs the session compares
EmptyPairs == {<<"", "">>, <<"", "RxData">>}

\* the register names of regs1 and of regs2
EmptyNames1 == {""}
EmptyNames2 == {"", "RxData"}

RegisterAlone == rc.pc = "idle" /\ Register

CallEmpty ==
    /\ rc.pc = "idle"
    /\ Quiescent
    /\ runs < MaxRuns
    /\ \E pair \in EmptyPairs, fallback_fuzzy \in BOOLEAN :
          RunCompare(pair[1], pair[2], fallback_fuzzy)
    /\ UNCHANGED <<lib_vars, mt_vars, rc_vars>>

\* what a next() on the generator means to its caller: nothing to the
\* session, the for loop of line 387 to compare_register_group_layout
AfterNextOf(caller, g) ==
    IF caller.pc = "idle" THEN caller ELSE [caller EXCEPT !.pc = AfterNext(g)]

\* the first next() on the generator, by either caller
EmptyFirst ==
    /\ rc.pc \in {"idle", "running"}
    /\ GenStart
    /\ rc' = AfterNextOf(rc, gen')
    /\ UNCHANGED <<lib_vars, mt_vars, result>>

\* a later next(), by either caller
EmptyLater ==
    /\ rc.pc \in {"idle", "running"}
    /\ GenResume
    /\ rc' = AfterNextOf(rc, gen')
    /\ UNCHANGED <<lib_vars, mt_vars, result>>

\* compare_register_group_layout creates its own WordCompare
RCBeginEmpty ==
    /\ WCNew
    /\ gen = GenNone
    /\ RCEnter(EmptyNames1, EmptyNames2)

NextEmpty ==
    \/ RegisterAlone \/ CallEmpty \/ EmptyFirst \/ EmptyLater
    \/ RCBeginEmpty \/ RCLoop2 \/ RCLoop1 \/ RCReturn

SpecEmpty == Idle /\ [][NextEmpty]_vars

(***************************************************************************)
(* SynonymsGen (synonyms.py).  A word is a sequence of one-character       *)
(* strings, so that lower(), the vowel regex and the splits of the         *)
(* tokenizers are computed on its characters.                              *)
(***************************************************************************)
UpperChars == <<"A","B","C","D","E","F","G","H","I","J","K","L","M",
                "N","O","P","Q","R","S","T","U","V","W","X","Y","Z">>
LowerChars == <<"a","b","c","d","e","f","g","h","i","j","k","l","m",
                "n","o","p","q","r","s","t","u","v","w","x","y","z">>
Digits == {"0","1","2","3","4","5","6","7","8","9"}

IsUpper(c) == \E i \in 1..Len(UpperChars) : UpperChars[i] = c
IsLower(c) == \E i \in 1..Len(LowerChars) : LowerChars[i] = c

\* str.lower() on one character and on a word
LowerChar(c) ==
    IF IsUpper(c)
    THEN LowerChars[CHOOSE i \in 1..Len(UpperChars) : UpperChars[i] = c]
    ELSE c
Lower(word) == [i \in 1..Len(word) |-> LowerChar(word[i])]

\* _vowelsRegex with re.IGNORECASE
IsVowel(c) == LowerChar(c) \in {"a","e","i","o","u"}
NotVowel(c) == ~IsVowel(c)

\* re.sub(_vowelsRegex, '', word, flags=re.IGNORECASE)
RemoveVowels(word) == SelectSeq(word, NotVowel)

\* the default comparator, lambda a, b: a.lower() == b.lower()
DefaultComparator(a, b) == Lower(a) = Lower(b)

vowels_cutoff == 1

SYNONYMS ==
    << << <<"E","n","a","b","l","e">>, <<"E","n","a","b","l","e","d">>, <<"E","n">> >>,
       << <<"T","r","a","n","s","m","i","t">>, <<"T","x">>, <<"X","m","i","t">>, <<"T","r","a","n","s","m","i","t","t","i","n","g">> >>,
       << <<"R","e","c","e","i","v","e">>, <<"R","x">>, <<"R","e","c","v">>, <<"R","e","c","e","i","v","i","n","g">> >>,
       << <<"S","h","o","r","t">>, <<"S","h","o","r","t","c","u","t","s">>, <<"S","h","o","r","t","s">> >>,
       << <<"D","e","v","i","c","e">>, <<"D","e","v">> >>,
       << <<"O","f","f","s","e","t">>, <<"O","f","f">> >>,
       << <<"C","o","n","t","r","o","l">>, <<"C","t","r","l">>, <<"C","t","r">>, <<"C","r">> >>,
       << <<"I","n","t","e","r","r","u","p","t">>, <<"I","n","t">>, <<"I","n","t","c">>, <<"I","r","q">> >>,
       << <<"C","l","e","a","r">>, <<"C","l","r">> >>,
       << <<"T","o","g","g","l","e">>, <<"T","o","g">> >>,
       << <<"P","h","y","s","i","c","a","l">>, <<"P","h","y">>, <<"P","h">> >>,
       << <<"N","u","m","b","e","r">>, <<"N","u","m">> >>,
       << <<"T","h","r","e","s","h","o","l","d">>, <<"T","h">>, <<"T","r">> >>,
       << <<"I","d","e","n","t","i","f","i","e","r">>, <<"I","d">>, <<"I","d","e","n">>, <<"I","d","e","n","t">> >>,
       << <<"H","i","g","h">>, <<"H","i">>, <<"H">> >>,
       << <<"L","o","w">>, <<"L","o">>, <<"L">> >>,
       << <<"C","l","o","c","k">>, <<"C","l","k">> >>,
       << <<"B","a","c","k","u","p">>, <<"B","k","p">> >>,
       << <<"W","a","k","e","u","p">>, <<"W","u">> >>,
       << <<"T","i","m","e","s","t","a","m","p">>, <<"T","s","t">>, <<"T","s">> >>,
       << <<"P","r","e","s","c","a","l","e","r">>, <<"P","r","e">> >>,
       << <<"C","o","n","f","i","g">>, <<"C","f","g">> >>,
       << <<"C","o","m","m","a","n","d">>, <<"C","m","d">> >>,
       << <<"R","e","g","i","s","t","e","r">>, <<"R","e","g">> >>,
       <<  >> >>

\* _delete_vowels_in_row (lines 65-71): the words of a row, each followed
\* by its stripped form when that is longer than the cutoff
RECURSIVE DeleteVowelsInRow(_, _, _)
DeleteVowelsInRow(row, k, delete_vowels) ==
    IF k > Len(row) THEN << >>
    ELSE <<row[k]>>
         \o (IF delete_vowels /\ Len(RemoveVowels(row[k])) > vowels_cutoff
             THEN <<RemoveVowels(row[k])>> ELSE << >>)
         \o DeleteVowelsInRow(row, k + 1, delete_vowels)

\* the lambda of the filter (lines 80-81)
RowSelected(row, a, a_del, delete_vowels) ==
    \E k \in 1..Len(DeleteVowelsInRow(row, 1, delete_vowels)) :
        \/ DefaultComparator(a, DeleteVowelsInRow(row, 1, delete_vowels)[k])
        \/ (delete_vowels
              /\ DefaultComparator(a_del, DeleteVowelsInRow(row, 1, delete_vowels)[k]))

\* the rows the filter lets through, by their index in SYNONYMS, in order
RECURSIVE FilteredRows(_, _, _, _)
FilteredRows(i, a, a_del, delete_vowels) ==
    IF i > Len(SYNONYMS) THEN << >>
    ELSE (IF RowSelected(SYNONYMS[i], a, a_del, delete_vowels)
          THEN <<i>> ELSE << >>)
         \o FilteredRows(i + 1, a, a_del, delete_vowels)

\* what is yielded before the rows are looked at (lines 73-78); each
\* yielded word is kept with the yield statement it came from
YieldHead(a, a_del, delete_vowels) ==
    <<[word |-> a, by |-> "a"]>>
    \o (IF delete_vowels /\ ~DefaultComparator(a_del, a)
           /\ Len(a_del) > vowels_cutoff
        THEN <<[word |-> a_del, by |-> "a_del"]>> ELSE << >>)

\* a variant of the loop body that does not leave out the words equal to
\* the base word
YieldWordAll(w, a, a_del, delete_vowels) ==
    <<[word |-> w, by |-> "w"]>>

\* what the body of the loop over a row yields for its word w (lines 85-94)
YieldWord(w, a, a_del, delete_vowels) ==
    IF ~delete_vowels
    THEN IF ~DefaultComparator(w, a)
         THEN <<[word |-> w, by |-> "w"]>> ELSE << >>
    ELSE (IF ~DefaultComparator(w, a_del) /\ ~DefaultComparator(w, a)
          THEN <<[word |-> w, by |-> "w"]>> ELSE << >>)
         \o (IF /\ ~DefaultComparator(RemoveVowels(w), w)
                /\ ~DefaultComparator(RemoveVowels(w), a)
                /\ ~DefaultComparator(RemoveVowels(w), a_del)
                /\ Len(a_del) > vowels_cutoff
             THEN <<[word |-> RemoveVowels(w), by |-> "helper"]>>
             ELSE << >>)

\* the words of a sequence of yields
WordsOf(out) == [k \in 1..Len(out) |-> out[k].word]

\* get_word_synonyms(a) run to its end (lines 64-94)
RECURSIVE YieldRow(_, _, _, _, _)
YieldRow(row, k, a, a_del, delete_vowels) ==
    IF k > Len(row) THEN << >>
    ELSE YieldWord(row[k], a, a_del, delete_vowels)
         \o YieldRow(row, k + 1, a, a_del, delete_vowels)

RECURSIVE YieldRows(_, _, _, _, _)
YieldRows(rows, r, a, a_del, delete_vowels) ==
    IF r > Len(rows) THEN << >>
    ELSE YieldRow(SYNONYMS[rows[r]], 1, a, a_del, delete_vowels)
         \o YieldRows(rows, r + 1, a, a_del, delete_vowels)

get_word_synonyms(a, delete_vowels) ==
    WordsOf(YieldHead(a, RemoveVowels(a), delete_vowels)
            \o YieldRows(FilteredRows(1, a, RemoveVowels(a), delete_vowels), 1,
                         a, RemoveVowels(a), delete_vowels))

\* compare_words (lines 96-101) and _memberwise_compare (lines 58-62)
MemberwiseAny(sa, sb) ==
    \E i \in 1..Len(sa) : \E j \in 1..Len(sb) : DefaultComparator(sa[i], sb[j])
compare_words(a, b, delete_vowels) ==
    MemberwiseAny(get_word_synonyms(a, delete_vowels),
                  get_word_synonyms(b, delete_vowels))

(***************************************************************************)
(* WordGen (synonyms.py, lines 103-128): SpecWG.                           *)
(***************************************************************************)
MaxGroups == 3

\* the groups of candidate words a caller passes
WGGroups ==
    { << >>, <<"Tx", "Transmit">>, <<"Dev">>, <<"Offset", "Off">> }
WGBags == UNION { [1..n -> WGGroups] : n \in 0..MaxGroups }

\* the inner loops of lines 117-121: for token in tokens, for sentence in
\* sentences, sentence + [token]
NewSentences(sentences, tokens) ==
    [k \in 1..(Len(tokens) * Len(sentences)) |->
        Append(sentences[((k - 1) % Len(sentences)) + 1],
               tokens[((k - 1) \div Len(sentences)) + 1])]

\* the body of the loop over the groups (lines 112-121)
AddGroup(sentences, tokens) ==
    IF sentences = << >>
    THEN [k \in 1..Len(tokens) |-> <<tokens[k]>>]
    ELSE NewSentences(sentences, tokens)

\* WordGen() and the call of add_tokens with a bag of groups
WGBegin ==
    /\ wg = None
    /\ \E bag \in WGBags :
          wg' = [pc |-> "add_tokens", bag |-> bag, i |-> 1,
                 sentences |-> << >>, returned |-> None]
    /\ UNCHANGED <<mt_vars, wc_vars, gen_vars, rc_vars, syn, tk, ms, mm, mr>>

\* one pass of the loop over the groups
WGGroup ==
    /\ wg # None
    /\ wg.pc = "add_tokens"
    /\ wg.i <= Len(wg.bag)
    /\ wg' = [wg EXCEPT !.sentences = AddGroup(@, wg.bag[wg.i]),
                        !.i = @ + 1]
    /\ UNCHANGED <<mt_vars, wc_vars, gen_vars, rc_vars, syn, tk, ms, mm, mr>>

\* add_tokens returns and gen_possible_words is called
WGReturn ==
    /\ wg # None
    /\ wg.pc = "add_tokens"
    /\ wg.i > Len(wg.bag)
    /\ wg' = [wg EXCEPT !.pc = "returned", !.returned = wg.sentences]
    /\ UNCHANGED <<mt_vars, wc_vars, gen_vars, rc_vars, syn, tk, ms, mm, mr>>

\* the generator is dropped
WGDrop ==
    /\ wg # None
    /\ wg.pc = "returned"
    /\ wg' = None
    /\ UNCHANGED <<mt_vars, wc_vars, gen_vars, rc_vars, syn, tk, ms, mm, mr>>

WGNext == WGBegin \/ WGGroup \/ WGReturn \/ WGDrop

SpecWG == Idle /\ [][WGNext]_vars

(***************************************************************************)
(* One get_word_synonyms generator consumed to its end: SpecSyn.           *)
(***************************************************************************)
\* the words asked for: every word of the table, and words that are in no
\* row, differ in case from a row's word, or meet a row by stripping only
ExtraWords ==
    { << >>, <<"F","o","o">>, <<"t","x">>, <<"E","N">>, <<"h">>,
      <<"T","x","e">>, <<"I","d","a">>, <<"a","e">>, <<"O","f">>,
      <<"c","l","e","a","r">>, <<"R","e","g">> }
SynWords ==
    ExtraWords
    \cup UNION { { SYNONYMS[i][k] : k \in 1..Len(SYNONYMS[i]) } :
                   i \in 1..Len(SYNONYMS) }

SynStart(a, delete_vowels) ==
    [pc |-> "rows", a |-> a, a_del |-> RemoveVowels(a),
     delete_vowels |-> delete_vowels,
     rows |-> FilteredRows(1, a, RemoveVowels(a), delete_vowels),
     r |-> 1, k |-> 1,
     out |-> YieldHead(a, RemoveVowels(a), delete_vowels)]

\* the generator is created and run up to the loop over the filtered rows
SynBegin ==
    /\ syn = None
    /\ \E a \in SynWords, delete_vowels \in BOOLEAN :
          syn' = SynStart(a, delete_vowels)
    /\ UNCHANGED <<mt_vars, wc_vars, gen_vars, rc_vars, wg, tk, ms, mm, mr>>

\* one pass through the body of the loop over the words of a row
SynWord ==
    /\ syn # None
    /\ syn.pc = "rows"
    /\ syn.r <= Len(syn.rows)
    /\ syn' = [syn EXCEPT
                !.out = @ \o YieldWord(SYNONYMS[syn.rows[syn.r]][syn.k],
                                       syn.a, syn.a_del, syn.delete_vowels),
                !.k = IF syn.k < Len(SYNONYMS[syn.rows[syn.r]]) THEN syn.k + 1 ELSE 1,
                !.r = IF syn.k < Len(SYNONYMS[syn.rows[syn.r]]) THEN syn.r ELSE syn.r + 1]
    /\ UNCHANGED <<mt_vars, wc_vars, gen_vars, rc_vars, wg, tk, ms, mm, mr>>

\* the filtered rows are exhausted: the generator ends
SynEnd ==
    /\ syn # None
    /\ syn.pc = "rows"
    /\ syn.r > Len(syn.rows)
    /\ syn' = [syn EXCEPT !.pc = "done"]
    /\ UNCHANGED <<mt_vars, wc_vars, gen_vars, rc_vars, wg, tk, ms, mm, mr>>

\* the list of synonyms is dropped
SynDrop ==
    /\ syn # None
    /\ syn.pc = "done"
    /\ syn' = None
    /\ UNCHANGED <<mt_vars, wc_vars, gen_vars, rc_vars, wg, tk, ms, mm, mr>>

SynNext == SynBegin \/ SynWord \/ SynEnd \/ SynDrop

SpecSyn == Idle /\ [][SynNext]_vars

(***************************************************************************)
(* Tokenizers and TokenizerPipeline (tokenizer.py): SpecTK.                *)
(***************************************************************************)
MaxWordLen == 3
MaxNames == 3

\* the members of a sequence
Range(seq) == { seq[k] : k \in 1..Len(seq) }

\* Token(token, atomic)
Token(token, atomic) == [token |-> token, atomic |-> atomic]

\* the character classes of the patterns _+, \.+, [0-9]+ and [a-z]+
CharIn(class, c) ==
    CASE class = "underscore" -> c = "_"
      [] class = "dot" -> c = "."
      [] class = "number" -> c \in Digits
      [] class = "lower" -> IsLower(c)

\* the length of the longest run of characters of a class from position p
RECURSIVE RunLen(_, _, _)
RunLen(word, p, class) ==
    IF p > Len(word) \/ ~CharIn(class, word[p]) THEN 0
    ELSE 1 + RunLen(word, p + 1, class)

\* the length of the match of a tokenizer's pattern at position p, 0 when
\* it does not match there: ({name}), (_+), (\.+), ([0-9]+), ([A-Z][a-z]+)
MatchLen(kind, name, word, p) ==
    CASE kind = "Name" ->
           IF p + Len(name) - 1 <= Len(word)
              /\ SubSeq(word, p, p + Len(name) - 1) = name
           THEN Len(name) ELSE 0
      [] kind = "Underscore" -> RunLen(word, p, "underscore")
      [] kind = "Dot" -> RunLen(word, p, "dot")
      [] kind = "Number" -> RunLen(word, p, "number")
      [] kind = "Case" ->
           IF IsUpper(word[p]) /\ RunLen(word, p + 1, "lower") > 0
           THEN 1 + RunLen(word, p + 1, "lower") ELSE 0

\* re.split(pattern, word) with the pattern in a capture group: the text
\* between the leftmost non-overlapping matches, and the matches
RECURSIVE SplitFrom(_, _, _, _, _)
SplitFrom(kind, name, word, start, p) ==
    IF p > Len(word) THEN <<SubSeq(word, start, Len(word))>>
    ELSE IF MatchLen(kind, name, word, p) > 0
    THEN <<SubSeq(word, start, p - 1),
           SubSeq(word, p, p + MatchLen(kind, name, word, p) - 1)>>
         \o SplitFrom(kind, name, word, p + MatchLen(kind, name, word, p),
                      p + MatchLen(kind, name, word, p))
    ELSE SplitFrom(kind, name, word, start, p + 1)

\* Tokenizer._rem_empty
NotEmpty(piece) == piece # << >>
RemEmpty(pieces) == SelectSeq(pieces, NotEmpty)

\* Token.from_iterator over the pieces of a split
FromPieces(pieces) == [k \in 1..Len(pieces) |-> Token(pieces[k], FALSE)]

\* the Underscore, Dot, Number and Case tokenizers called on a word
SplitWord(kind, name, word) ==
    FromPieces(RemEmpty(SplitFrom(kind, name, word, 1, 1)))

\* NameTokenizer.__call__, lines 84-87: every token that is not atomic is
\* split by one name
RECURSIVE SplitByName(_, _, _)
SplitByName(words, k, name) ==
    IF k > Len(words) THEN << >>
    ELSE (IF words[k].atomic THEN <<words[k]>>
          ELSE SplitWord("Name", name, words[k].token))
         \o SplitByName(words, k + 1, name)

\* lines 88-90: a token whose text is one of the names becomes atomic
MarkAtomic(words, names) ==
    [k \in 1..Len(words) |->
        IF words[k].token \in Range(names)
        THEN Token(words[k].token, TRUE) ELSE words[k]]

\* NameTokenizer.__call__, the loop over the names from the i-th on
RECURSIVE NameLoop(_, _, _)
NameLoop(words, names, i) ==
    IF i > Len(names) THEN words
    ELSE NameLoop(MarkAtomic(SplitByName(words, 1, names[i]), names),
                  names, i + 1)

\* tokenizer(str(token)) for a tokenizer of the pipeline
CallTokenizer(kind, names, word) ==
    IF kind = "Name" THEN NameLoop(<<Token(word, FALSE)>>, names, 1)
    ELSE SplitWord(kind, << >>, word)

\* a variant of the stage that also hands the atomic tokens to the
\* tokenizer
RECURSIVE RunStageOnAll(_, _, _, _)
RunStageOnAll(tokens, k, kind, names) ==
    IF k > Len(tokens) THEN << >>
    ELSE CallTokenizer(kind, names, tokens[k].token)
         \o RunStageOnAll(tokens, k + 1, kind, names)

\* run_pipeline, lines 114-117: one tokenizer applied to the tokens
RECURSIVE RunStage(_, _, _, _)
RunStage(tokens, k, kind, names) ==
    IF k > Len(tokens) THEN << >>
    ELSE (IF tokens[k].atomic # TRUE
          THEN CallTokenizer(kind, names, tokens[k].token)
          ELSE <<tokens[k]>>)
         \o RunStage(tokens, k + 1, kind, names)

\* the words, the names and the pipelines of a run
TKChars == {"I", "2", "C", "x", "_", "."}
TKWords == UNION { [1..n -> TKChars] : n \in 0..MaxWordLen }
TKNameSet == { <<"I","2","C">>, <<"2","C">>, <<"x">> }
TKNames ==
    { names \in UNION { [1..n -> TKNameSet] : n \in 0..MaxNames } :
         \A i, j \in 1..Len(names) : i # j => names[i] # names[j] }
\* get_default_tokenizer_pipeline (line 129), and a pipeline that splits at
\* the numbers before it looks for the names
TKPipelines ==
    { <<"Name", "Underscore", "Dot", "Number", "Case">>,
      <<"Number", "Name", "Case">> }

\* run_pipeline is called: self.tokens = [Token(word)] (line 112)
TKBegin ==
    /\ tk = None
    /\ \E word \in TKWords, names \in TKNames, pipeline \in TKPipelines :
          tk' = [pc |-> "run_pipeline", word |-> word, names |-> names,
                 pipeline |-> pipeline, stage |-> 0,
                 tokens |-> <<Token(word, FALSE)>>]
    /\ UNCHANGED <<mt_vars, wc_vars, gen_vars, rc_vars, syn, wg, ms, mm, mr>>

\* one pass of the loop over the tokenizers (lines 113-117)
TKStage ==
    /\ tk # None
    /\ tk.pc = "run_pipeline"
    /\ tk.stage < Len(tk.pipeline)
    /\ tk' = [tk EXCEPT
                !.stage = @ + 1,
                !.tokens = RunStage(@, 1, tk.pipeline[tk.stage + 1], tk.names)]
    /\ UNCHANGED <<mt_vars, wc_vars, gen_vars, rc_vars, syn, wg, ms, mm, mr>>

\* the loop is over: get_tokens gives self.tokens
TKReturn ==
    /\ tk # None
    /\ tk.pc = "run_pipeline"
    /\ tk.stage = Len(tk.pipeline)
    /\ tk' = [tk EXCEPT !.pc = "returned"]
    /\ UNCHANGED <<mt_vars, wc_vars, gen_vars, rc_vars, syn, wg, ms, mm, mr>>

\* the tokens are dropped
TKDrop ==
    /\ tk # None
    /\ tk.pc = "returned"
    /\ tk' = None
    /\ UNCHANGED <<mt_vars, wc_vars, gen_vars, rc_vars, syn, wg, ms, mm, mr>>

TKNext == TKBegin \/ TKStage \/ TKReturn \/ TKDrop

SpecTK == Idle /\ [][TKNext]_vars

(***************************************************************************)
(* MatchSimple.match on the tokens of two words (regcompare.py, lines      *)
(* 168-193), with the tokenizer and the synonyms of a default WordCompare: *)
(* SpecMS.                                                                 *)
(***************************************************************************)
MaxParts == 2

\* _renodeNameTokenizer (tokenizer.py, line 126)
RenodeNames ==
    << <<"G","P","I","O">>, <<"I","2","C">>, <<"I","R","Q">>,
       <<"P","C","I","E","x","p","r","e","s","s">>, <<"P","C","I">>,
       <<"S","P","I">> >>

\* the tokenizer of WordCompare() (line 83): NameTokenizer(self.names),
\* with no names, before the default pipeline
WordComparePipeline ==
    << [kind |-> "Name", names |-> << >>],
       [kind |-> "Name", names |-> RenodeNames],
       [kind |-> "Underscore", names |-> << >>],
       [kind |-> "Dot", names |-> << >>],
       [kind |-> "Number", names |-> << >>],
       [kind |-> "Case", names |-> << >>] >>

\* run_pipeline from the i-th tokenizer on
RECURSIVE RunPipeline(_, _, _)
RunPipeline(tokens, pipeline, i) ==
    IF i > Len(pipeline) THEN tokens
    ELSE RunPipeline(RunStage(tokens, 1, pipeline[i].kind, pipeline[i].names),
                     pipeline, i + 1)

\* str(token) for the tokens of a sequence
TextsOf(tokens) == [k \in 1..Len(tokens) |-> tokens[k].token]

\* the words compared: up to MaxParts parts written one after another
MSParts ==
    { <<"T","x">>, <<"T","r","a","n","s","m","i","t">>,
      <<"D","a","t","a">>, <<"N","o","n","e">> }
RECURSIVE MSWordsOf(_)
MSWordsOf(n) ==
    IF n = 0 THEN { << >> }
    ELSE MSWordsOf(n - 1) \cup { w \o p : w \in MSWordsOf(n - 1), p \in MSParts }
MSWords == MSWordsOf(MaxParts)

\* self.tokenizer(word) for the words compared, evaluated once
TokensOfWord ==
    [w \in MSWords |->
        TextsOf(RunPipeline(<<Token(w, FALSE)>>, WordComparePipeline, 1))]

\* str(None), which str(token_a) and str(token_b) of line 174 give for the
\* fill value of zip_longest
NoneStr == <<"N","o","n","e">>

\* compare_words of SynonymsGen() over the texts compared, evaluated once
MSTexts == {NoneStr} \cup UNION { Range(TokensOfWord[w]) : w \in MSWords }
CompareWordsTable ==
    [a \in MSTexts |-> [b \in MSTexts |-> compare_words(a, b, FALSE)]]

\* the i-th element zip_longest gives for a sequence, as str() sees it
ZipText(tokens, i) == IF i <= Len(tokens) THEN tokens[i] ELSE NoneStr

\* _compare_token (lines 173-174) on the i-th pair of zip_longest
CompareToken(tokens_a, tokens_b, i) ==
    CompareWordsTable[ZipText(tokens_a, i)][ZipText(tokens_b, i)]

PyMax2(a, b) == IF a >= b THEN a ELSE b

\* the calls of match made on one MatchSimple object
MaxCalls == 2

\* MatchSimple(): the slots matched_exact and tokens_parsed are not set
MSNew ==
    [pc |-> "new", calls |-> 0, word_a |-> None, word_b |-> None,
     tokens_a |-> None, tokens_b |-> None, i |-> 0, is_matched |-> FALSE,
     matched_exact |-> None, tokens_parsed |-> None, result |-> None]

\* a variant of reset that sets the counters of a new object only
MSResetOnce(obj) ==
    IF obj.calls = 0
    THEN [obj EXCEPT !.matched_exact = 0, !.tokens_parsed = 0]
    ELSE obj

\* MatchSimple.reset (lines 176-180)
MSReset(obj) == [obj EXCEPT !.matched_exact = 0, !.tokens_parsed = 0]

\* comp.reset() (line 114 of run_compare), then comp.match(word_a, word_b)
\* up to the loop: the two calls of the tokenizer (lines 183-184)
MSCall(obj, word_a, word_b) ==
    [MSReset(obj) EXCEPT
        !.pc = "loop", !.calls = @ + 1,
        !.word_a = word_a, !.word_b = word_b,
        !.tokens_a = TokensOfWord[word_a],
        !.tokens_b = TokensOfWord[word_b],
        !.i = 0, !.is_matched = FALSE, !.result = None]

\* a MatchSimple object is created and invoked for the first time
MSBegin ==
    /\ ms = None
    /\ \E word_a \in MSWords, word_b \in MSWords :
          ms' = MSCall(MSNew, word_a, word_b)
    /\ UNCHANGED <<mt_vars, wc_vars, gen_vars, rc_vars, syn, wg, tk, mm, mr>>

\* the words of the later invocations
MSAgainWords == { <<"T","x","D","a","t","a">>, <<"T","r","a","n","s","m","i","t">> }

\* the object that has returned is invoked again, as run_compare does with
\* the comparators it holds
MSAgain ==
    /\ ms # None
    /\ ms.pc = "returned"
    /\ ms.calls < MaxCalls
    /\ \E word_a \in MSAgainWords, word_b \in MSAgainWords :
          ms' = MSCall(ms, word_a, word_b)
    /\ UNCHANGED <<mt_vars, wc_vars, gen_vars, rc_vars, syn, wg, tk, mm, mr>>

\* one pass of the loop over zip_longest (lines 186-191)
MSPair ==
    /\ ms # None
    /\ ms.pc = "loop"
    /\ ms.i < PyMax2(Len(ms.tokens_a), Len(ms.tokens_b))
    /\ ms' = [ms EXCEPT
                !.i = @ + 1,
                !.is_matched = CompareToken(ms.tokens_a, ms.tokens_b, ms.i + 1),
                !.matched_exact =
                    IF CompareToken(ms.tokens_a, ms.tokens_b, ms.i + 1)
                    THEN @ + 1 ELSE @,
                !.tokens_parsed = @ + 1]
    /\ UNCHANGED <<mt_vars, wc_vars, gen_vars, rc_vars, syn, wg, tk, mm, mr>>

\* line 193: MatchType(matched_exact / tokens_parsed, word_a, word_b); the
\* division raises when neither word has a token
MSReturn ==
    /\ ms # None
    /\ ms.pc = "loop"
    /\ ms.i = PyMax2(Len(ms.tokens_a), Len(ms.tokens_b))
    /\ ms' = [ms EXCEPT
                !.pc = "returned",
                !.result =
                    IF ms.tokens_parsed = 0
                    THEN [raised |-> "ZeroDivisionError"]
                    ELSE MatchTypeInit(FloatArg(ms.matched_exact, ms.tokens_parsed),
                                       ms.word_a, ms.word_b, FALSE)]
    /\ UNCHANGED <<mt_vars, wc_vars, gen_vars, rc_vars, syn, wg, tk, mm, mr>>

\* the result is dropped
MSDrop ==
    /\ ms # None
    /\ ms.pc = "returned"
    /\ ms' = None
    /\ UNCHANGED <<mt_vars, wc_vars, gen_vars, rc_vars, syn, wg, tk, mm, mr>>

MSNext == MSBegin \/ MSPair \/ MSReturn \/ MSAgain \/ MSDrop

SpecMS == Idle /\ [][MSNext]_vars

(***************************************************************************)
(* match_most_similar (models_match.py, lines 11-53): SpecMM.  The          *)
(* decision matrix and the TOPSIS ranking belong to the library            *)
(* skcriteria; of the ranking only that it names one of the alternatives   *)
(* is modelled.                                                            *)
(***************************************************************************)
MaxResults == 3

\* the comparison results a caller hands over
MMResults ==
    { CompareResult(<<"UART", "UART2">>, 0, 0, 0, 100),
      CompareResult(<<"UART", "SPI">>, 1, 0, 50, 67),
      CompareResult(<<"UART", "I2C">>, 0, 2, 100, 0),
      CompareResult(<<"UART", "GPIO">>, 1, 1, 0, 34) }
MMLists == UNION { [1..n -> MMResults] : n \in 1..MaxResults }

\* result[1:] (line 20)
DataRow(res) ==
    <<res.LeftHeavy, res.RightHeavy, res.Unmatched, res.Avg>>

\* lines 16-20: the loop that fills keys and data
MMBegin ==
    /\ mm = None
    /\ \E results \in MMLists :
          mm' = [pc |-> "mkdm", comparison_results |-> results,
                 keys |-> [k \in 1..Len(results) |-> results[k].PeripheralPair],
                 data |-> [k \in 1..Len(results) |-> DataRow(results[k])],
                 dm |-> None, steps |-> << >>, returned |-> None]
    /\ UNCHANGED <<mt_vars, wc_vars, gen_vars, rc_vars, syn, wg, tk, ms, mr>>

\* lines 22-30: skc.mkdm builds the decision matrix, which is printed
MMMkdm ==
    /\ mm # None
    /\ mm.pc = "mkdm"
    /\ mm' = [mm EXCEPT
                !.pc = "len",
                !.dm = [matrix |-> mm.data, alternatives |-> mm.keys],
                !.steps = Append(@, "mkdm")]
    /\ UNCHANGED <<mt_vars, wc_vars, gen_vars, rc_vars, syn, wg, tk, ms, mr>>

\* lines 33-34: with fewer than two rows the first result is returned
MMSingle ==
    /\ mm # None
    /\ mm.pc = "len"
    /\ Len(mm.data) < 2
    /\ mm' = [mm EXCEPT !.pc = "returned",
                        !.returned = mm.comparison_results[1]]
    /\ UNCHANGED <<mt_vars, wc_vars, gen_vars, rc_vars, syn, wg, tk, ms, mr>>

\* lines 36-53: the objectives are negated, weights and matrix scaled,
\* TOPSIS evaluated, and the alternative idxmin names is returned
MMDecide ==
    /\ mm # None
    /\ mm.pc = "len"
    /\ Len(mm.data) >= 2
    /\ \E best \in Range(mm.keys) :
          mm' = [mm EXCEPT
                   !.pc = "returned",
                   !.steps = @ \o <<"NegateMinimize", "SumScaler",
                                    "VectorScaler", "TOPSIS">>,
                   !.returned = best]
    /\ UNCHANGED <<mt_vars, wc_vars, gen_vars, rc_vars, syn, wg, tk, ms, mr>>

\* the decision is dropped
MMDrop ==
    /\ mm # None
    /\ mm.pc = "returned"
    /\ mm' = None
    /\ UNCHANGED <<mt_vars, wc_vars, gen_vars, rc_vars, syn, wg, tk, ms, mr>>

MMNext == MMBegin \/ MMMkdm \/ MMSingle \/ MMDecide \/ MMDrop

SpecMM == Idle /\ [][MMNext]_vars

(***************************************************************************)
(* MatchRelaxed and MatchFirstLetters (regcompare.py, lines 195-353):      *)
(* SpecMR.  The objects get the tokenizer and the names of a WordCompare   *)
(* made as in lines 368-371, for the peripherals UART and SPI.  What the   *)
(* loose comparator of a fuzzy object says of two different texts depends  *)
(* on rapidfuzz; either answer is taken to be possible.                    *)
(***************************************************************************)
\* self.names
PeripheralNames == << <<"U","A","R","T">>, <<"S","P","I">> >>

\* line 83: NameTokenizer(self.names) before the default pipeline
RelaxedPipeline ==
    << [kind |-> "Name", names |-> PeripheralNames] >> \o Tail(WordComparePipeline)

\* name.rstrip(string.digits)
RECURSIVE RStripDigits(_)
RStripDigits(name) ==
    IF name # << >> /\ name[Len(name)] \in Digits
    THEN RStripDigits(SubSeq(name, 1, Len(name) - 1))
    ELSE name

\* line 202
Nonsense ==
    << <<"_">>, << >>, <<" ">> >> \o PeripheralNames
       \o [k \in 1..Len(PeripheralNames) |-> RStripDigits(PeripheralNames[k])]

\* the words compared by both strategies, and two words of twenty tokens
\* each compared by MatchRelaxed alone
FLWords ==
    { <<>>,
      <<"_">>,
      <<"U","A","R","T">>,
      <<"T","x","D","a","t","a">>,
      <<"T","r","a","n","s","m","i","t","D","a","t","a">>,
      <<"U","A","R","T","_","T","x","D","a","t","a">>,
      <<"D","a","t","a">>,
      <<"T","D">>,
      <<"T","x","D">> }
MRLongWords ==
    { <<"a","1","a","1","a","1","a","1","a","1","a","1","a","1","a","1","a","1","a","1">>,
      <<"a","1","a","1","a","1","a","1","a","1","a","2","b","2","b","2","b","2","b","2">> }
MRWords == FLWords \cup MRLongWords

\* self.tokenizer(word), evaluated once
MRTokensOfWord ==
    [w \in MRWords |-> TextsOf(RunPipeline(<<Token(w, FALSE)>>, RelaxedPipeline, 1))]

MRTexts == UNION { Range(MRTokensOfWord[w]) : w \in MRWords }

\* get_word_synonyms of a SynonymsGen(gen_without_vowels=True) for the
\* texts of the tokens, for the nonsense words and for their synonyms,
\* evaluated once
FirstSynonyms ==
    [t \in MRTexts \cup Range(Nonsense) |-> get_word_synonyms(t, TRUE)]
SynonymsTable ==
    [t \in UNION { Range(FirstSynonyms[x]) : x \in DOMAIN FirstSynonyms } |->
        IF t \in DOMAIN FirstSynonyms THEN FirstSynonyms[t]
        ELSE get_word_synonyms(t, TRUE)]

\* compare_words (synonyms.py, lines 96-101) of that generator
CompareSynonyms(a, b) == MemberwiseAny(SynonymsTable[a], SynonymsTable[b])

\* line 204: any(gen.compare_words(element, str(token)) for element in
\* nonsense), with gen = SynonymsGen(gen_without_vowels=True)
IsNonsenseTable ==
    [t \in MRTexts |-> \E k \in 1..Len(Nonsense) : CompareSynonyms(Nonsense[k], t)]
IsSense(t) == ~IsNonsenseTable[t]

\* _eat_nonsense_tokens (lines 198-206)
EatNonsenseTokens(tokens) == SelectSeq(tokens, IsSense)

\* lines 270-271 and 341-342, evaluated once
FilteredOfWord == [w \in MRWords |-> EatNonsenseTokens(MRTokensOfWord[w])]

\* _compare_token of a strict MatchRelaxed (lines 259-260), evaluated once
StrictTokenTable ==
    [a \in MRTexts |-> [b \in MRTexts |-> CompareSynonyms(a, b)]]

\* what _compare_token can give: for a fuzzy object, true for texts equal
\* without regard to case, else what the loose comparator makes of them
CompareTokenOutcomes(is_fuzzy, a, b) ==
    IF ~is_fuzzy THEN {StrictTokenTable[a][b]}
    ELSE IF Lower(a) = Lower(b) THEN {TRUE}
    ELSE BOOLEAN

PyMin2(a, b) == IF a <= b THEN a ELSE b

\* reset() and lines 270-275 of match
MRBegin ==
    /\ mr = None
    /\ \E word_a \in MRWords, word_b \in MRWords, is_fuzzy \in BOOLEAN :
          mr' = [cls |-> "MatchRelaxed", is_fuzzy |-> is_fuzzy, pc |-> "loop",
                 word_a |-> word_a, word_b |-> word_b,
                 tokens_a |-> FilteredOfWord[word_a],
                 tokens_b |-> FilteredOfWord[word_b],
                 max_total_tokens |-> PyMax2(Len(FilteredOfWord[word_a]),
                                             Len(FilteredOfWord[word_b])),
                 i |-> 0, matched_exact |-> 0, tokens_parsed |-> 0,
                 result |-> None]
    /\ UNCHANGED <<mt_vars, wc_vars, gen_vars, rc_vars, syn, wg, tk, ms, mm>>

\* one pass of the while loop (lines 278-288): both iterators give a token
MRPair ==
    /\ mr # None
    /\ mr.cls = "MatchRelaxed"
    /\ mr.pc = "loop"
    /\ mr.i < PyMin2(Len(mr.tokens_a), Len(mr.tokens_b))
    /\ \E is_matched \in CompareTokenOutcomes(mr.is_fuzzy, mr.tokens_a[mr.i + 1],
                                              mr.tokens_b[mr.i + 1]) :
          mr' = [mr EXCEPT !.i = @ + 1,
                           !.matched_exact = IF is_matched THEN @ + 1 ELSE @,
                           !.tokens_parsed = @ + 1]
    /\ UNCHANGED <<mt_vars, wc_vars, gen_vars, rc_vars, syn, wg, tk, ms, mm>>

\* a variant of line 293 without the test of tokens_parsed
RelaxedResultAlwaysDivides(obj) ==
    IF obj.max_total_tokens = 0
    THEN [raised |-> "ZeroDivisionError"]
    ELSE MatchTypeInit(FloatArg(obj.matched_exact, obj.max_total_tokens),
                       obj.word_a, obj.word_b, obj.is_fuzzy)

\* line 293
RelaxedResult(obj) ==
    IF obj.tokens_parsed > 0
    THEN MatchTypeInit(FloatArg(obj.matched_exact, obj.max_total_tokens),
                       obj.word_a, obj.word_b, obj.is_fuzzy)
    ELSE [raised |-> "none", obj |-> NoMatch(obj.word_a, obj.word_b)]

\* one of the iterators is exhausted: StopIteration ends the loop (lines
\* 290-291) and line 293 returns
MRReturn ==
    /\ mr # None
    /\ mr.cls = "MatchRelaxed"
    /\ mr.pc = "loop"
    /\ mr.i = PyMin2(Len(mr.tokens_a), Len(mr.tokens_b))
    /\ mr' = [mr EXCEPT !.pc = "returned", !.result = RelaxedResult(mr)]
    /\ UNCHANGED <<mt_vars, wc_vars, gen_vars, rc_vars, syn, wg, tk, ms, mm>>

\* _get_sentences (lines 300-303): the synonyms of each token, with the
\* injected SynonymsGen(gen_without_vowels=True), handed to WordGen
RECURSIVE AddTokens(_, _, _)
AddTokens(sentences, tokens, k) ==
    IF k > Len(tokens) THEN sentences
    ELSE AddTokens(AddGroup(sentences, SynonymsTable[tokens[k]]), tokens, k + 1)
GetSentences(tokens) == AddTokens(<< >>, tokens, 1)

\* join_first_letters (lines 306-307)
JoinFirstLetters(words) == [k \in 1..Len(words) |-> words[k][1]]

\* ''.join(words)
RECURSIVE JoinWords(_)
JoinWords(words) ==
    IF words = << >> THEN << >> ELSE Head(words) \o JoinWords(Tail(words))

\* the inner loop of join_and_synonyms (lines 315-316) for one position
SynonymsAt(words, pos) ==
    LET syns == SynonymsTable[words[pos]]
    IN  [k \in 1..Len(syns) |->
            JoinFirstLetters(SubSeq(words, 1, pos - 1)) \o syns[k]
               \o JoinFirstLetters(SubSeq(words, pos + 1, Len(words)))]

\* join_and_synonyms (lines 309-318) from position pos on
RECURSIVE JoinAndSynonyms(_, _)
JoinAndSynonyms(words, pos) ==
    IF pos > Len(words) THEN << >>
    ELSE SynonymsAt(words, pos) \o JoinAndSynonyms(words, pos + 1)

\* lines 322 and 324
Joined(words) ==
    <<JoinFirstLetters(words)>> \o <<JoinWords(words)>> \o JoinAndSynonyms(words, 1)

\* the sentences of a word, and the joined strings of each of them,
\* evaluated once
SentencesOfWord == [w \in FLWords |-> GetSentences(FilteredOfWord[w])]
JoinedOfWord ==
    [w \in FLWords |->
        [k \in 1..Len(SentencesOfWord[w]) |-> Joined(SentencesOfWord[w][k])]]

\* the joined strings of a word that line 329 lets through
CandidatesOfWord ==
    [w \in FLWords |->
        {x \in UNION { Range(JoinedOfWord[w][k]) : k \in 1..Len(JoinedOfWord[w]) } :
            Len(x) > 1}]

\* line 329 for a strict object: both strings longer than one character
\* and equal without regard to case
StrictHit(join_a, join_b) ==
    Len(join_a) > 1 /\ Len(join_b) > 1 /\ Lower(join_a) = Lower(join_b)

LeastOf(S) == CHOOSE x \in S : \A y \in S : x <= y

\* the first hit in the order of the four loops of lines 321-327, or None
FirstHit(JA, JB) ==
    LET SA == {sa \in 1..Len(JA) : \E sb \in 1..Len(JB) :
                  \E ia \in 1..Len(JA[sa]) : \E ib \in 1..Len(JB[sb]) :
                     StrictHit(JA[sa][ia], JB[sb][ib])}
    IN  IF SA = {} THEN None
        ELSE LET sa == LeastOf(SA)
                 sb == LeastOf({x \in 1..Len(JB) :
                          \E ia \in 1..Len(JA[sa]) : \E ib \in 1..Len(JB[x]) :
                             StrictHit(JA[sa][ia], JB[x][ib])})
                 ia == LeastOf({x \in 1..Len(JA[sa]) :
                          \E ib \in 1..Len(JB[sb]) : StrictHit(JA[sa][x], JB[sb][ib])})
                 ib == LeastOf({x \in 1..Len(JB[sb]) : StrictHit(JA[sa][ia], JB[sb][x])})
             IN  [join_a |-> JA[sa][ia], join_b |-> JB[sb][ib]]

\* match of a strict MatchFirstLetters (line 353): the first result above
\* NoMatch, which is an Exact, else NoMatch(word_a, word_b); evaluated once
StrictFirstLetters ==
    [a \in FLWords |-> [b \in FLWords |->
        LET hit == FirstHit(JoinedOfWord[a], JoinedOfWord[b])
        IN  IF hit = None THEN NoMatch(a, b)
            ELSE Exact(hit.join_a, hit.join_b, FALSE)]]

\* the ratios a fuzzy hit is reported with: True of line 231, or a
\* similarity of at least 0.75 (line 245)
LooseRatios == {BoolArg(TRUE), FloatArg(3, 4), FloatArg(5, 6)}

\* what match of a fuzzy MatchFirstLetters can return: NoMatch, or a hit
\* on a pair of joined strings longer than one character
LooseFirstLetters(a, b) ==
    {NoMatch(a, b)} \cup
    { MatchTypeInit(r, x, y, TRUE).obj :
        r \in LooseRatios, x \in CandidatesOfWord[a], y \in CandidatesOfWord[b] }

\* lines 339-342 of MatchFirstLetters.match
FLBegin ==
    /\ mr = None
    /\ \E word_a \in FLWords, word_b \in FLWords, is_fuzzy \in BOOLEAN :
          mr' = [cls |-> "MatchFirstLetters", is_fuzzy |-> is_fuzzy, pc |-> "sentences",
                 word_a |-> word_a, word_b |-> word_b,
                 tokens_a |-> FilteredOfWord[word_a],
                 tokens_b |-> FilteredOfWord[word_b],
                 sentences_a |-> None, sentences_b |-> None, result |-> None]
    /\ UNCHANGED <<mt_vars, wc_vars, gen_vars, rc_vars, syn, wg, tk, ms, mm>>

\* lines 348-349
FLSentences ==
    /\ mr # None
    /\ mr.cls = "MatchFirstLetters"
    /\ mr.pc = "sentences"
    /\ mr' = [mr EXCEPT !.pc = "compare",
                        !.sentences_a = SentencesOfWord[mr.word_a],
                        !.sentences_b = SentencesOfWord[mr.word_b]]
    /\ UNCHANGED <<mt_vars, wc_vars, gen_vars, rc_vars, syn, wg, tk, ms, mm>>

\* lines 351-353
FLReturn ==
    /\ mr # None
    /\ mr.cls = "MatchFirstLetters"
    /\ mr.pc = "compare"
    /\ \E m \in IF mr.is_fuzzy
                THEN LooseFirstLetters(mr.word_a, mr.word_b)
                ELSE {StrictFirstLetters[mr.word_a][mr.word_b]} :
          mr' = [mr EXCEPT !.pc = "returned", !.result = [raised |-> "none", obj |-> m]]
    /\ UNCHANGED <<mt_vars, wc_vars, gen_vars, rc_vars, syn, wg, tk, ms, mm>>

\* the result is dropped
MRDrop ==
    /\ mr # None
    /\ mr.pc = "returned"
    /\ mr' = None
    /\ UNCHANGED <<mt_vars, wc_vars, gen_vars, rc_vars, syn, wg, tk, ms, mm>>

MRNext == MRBegin \/ MRPair \/ MRReturn \/ FLBegin \/ FLSentences \/ FLReturn \/ MRDrop

SpecMR == Idle /\ [][MRNext]_vars

(***************************************************************************)
(* Properties of WordCompare.run_compare, under Spec.                      *)
(***************************************************************************)
\* the call in progress, or the last one made, has come to its end
CallEnded == gen.pc \in {"returned", "KeyError"}

\* C1: within one run_compare call a result of score 100 is the last result
\* of the call: once a comparator has returned a score of 100 no further
\* comparator is invoked, neither a remaining primary one nor a fuzzy one,
\* whatever fallback_fuzzy is.
C1_ExactEndsCall ==
    /\ \A i \in 1..Len(yielded) : yielded[i][2].percent = 100 => i = Len(yielded)
    /\ (gen.pc = "created" => yielded = << >>)

\* a call has ended on a score of 100 with fallback_fuzzy set while a
\* primary and a fuzzy comparator were still to be run
C1_Witness ==
    /\ gen.pc = "returned"
    /\ gen.fallback_fuzzy
    /\ Len(yielded) >= 1
    /\ yielded[Len(yielded)][2].percent = 100
    /\ Len(yielded) < Len(comparators)
    /\ Len(fuzzy_comparators) > 0

\* C2: the step that ends a run_compare call for (word_a, word_b) appends
\* the pair to the unmatched list if and only if every result of the call
\* had score 0, and then the best-match map holds no entry for the pair;
\* if some result had a score above 0 the pair is not appended and the map
\* holds an entry for it.  No earlier step of the call touches the list.
C2_UnmatchedIffAllZero ==
    [][gen.pc \in {"created", "suspended"} =>
          IF gen'.pc = "suspended"
          THEN unmatched' = unmatched
          ELSE IF \A i \in 1..Len(yielded') : yielded'[i][2].percent = 0
          THEN /\ unmatched' = Append(unmatched, <<gen.word_a, gen.word_b>>)
               /\ <<gen.word_a, gen.word_b>> \notin DOMAIN best_matches'
          ELSE /\ unmatched' = unmatched
               /\ <<gen.word_a, gen.word_b>> \in DOMAIN best_matches']_vars

\* a call whose comparators all scored 0 has ended: its pair is the last
\* entry of the unmatched list and has no best-match record
C2_Witness ==
    /\ CallEnded
    /\ Len(yielded) >= 1
    /\ \A i \in 1..Len(yielded) : yielded[i][2].percent = 0
    /\ Len(unmatched) >= 1
    /\ unmatched[Len(unmatched)] = <<gen.word_a, gen.word_b>>
    /\ <<gen.word_a, gen.word_b>> \notin DOMAIN best_matches

\* C3: the best-match record of a pair, when present, is the earliest of
\* the results of maximal score among all results produced for the pair in
\* the session.
C3_BestIsEarliestMax ==
    \A pair \in DOMAIN best_matches :
       \E i \in 1..Len(produced) :
          /\ produced[i].pair = pair
          /\ best_matches[pair] = produced[i].match
          /\ \A j \in 1..Len(produced) :
                produced[j].pair = pair =>
                   /\ produced[j].match.percent <= produced[i].match.percent
                   /\ (produced[j].match.percent = produced[i].match.percent => i <= j)

\* a register_comparator call that puts its comparator on the primary list
IsPrimaryReg(r) == ~(r.comp.is_fuzzy \/ r.fuzzy)
IsFuzzyReg(r) == r.comp.is_fuzzy \/ r.fuzzy

\* the comparators of a sequence of register_comparator calls
CompsOf(regs) == [k \in 1..Len(regs) |-> regs[k].comp]

\* C19: the primary list holds, in registration order, the comparators
\* registered without a fuzzy flag of their own and without the fuzzy
\* override, the fuzzy list the others; within one run_compare call the
\* k-th comparator invoked is the k-th of the primary list followed by the
\* fuzzy list, and one of the fuzzy list is invoked only when
\* fallback_fuzzy is set and no primary comparator scored 100.
C19_PrimaryThenFuzzy ==
    /\ comparators = CompsOf(SelectSeq(registered, IsPrimaryReg))
    /\ fuzzy_comparators = CompsOf(SelectSeq(registered, IsFuzzyReg))
    /\ (gen.pc = "suspended" =>
          /\ Len(yielded) <= Len(comparators) + Len(fuzzy_comparators)
          /\ \A k \in 1..Len(yielded) :
                yielded[k] =
                   <<CompName((comparators \o fuzzy_comparators)[k]),
                     [CompMatch((comparators \o fuzzy_comparators)[k],
                                gen.word_a, gen.word_b)
                         EXCEPT !.comp_name = CompName((comparators \o fuzzy_comparators)[k])]>>
          /\ (Len(yielded) > Len(comparators) =>
                 /\ gen.fallback_fuzzy
                 /\ \A k \in 1..Len(comparators) : yielded[k][2].percent # 100))

\* a call with two primary comparators has got to a fuzzy comparator that
\* is fuzzy by the override only
C19_Witness ==
    /\ gen.pc = "suspended"
    /\ gen.list = "fuzzy_comparators"
    /\ Len(comparators) = 2
    /\ Len(yielded) = 3
    /\ ~fuzzy_comparators[1].is_fuzzy

(***************************************************************************)
(* Properties of compare_register_group_layout, under SpecRC.              *)
(***************************************************************************)
\* the distinct offsets of a register list
OffsetsOf(regs) == {regs[i].Offset : i \in 1..Len(regs)}

\* the offsets present in both groups
CommonOffsets == OffsetsOf(rc.regs1) \cap OffsetsOf(rc.regs2)

\* the name of the last register of regs that sits at offset off
NameAt(regs, off) ==
    regs[CHOOSE i \in 1..Len(regs) :
           /\ regs[i].Offset = off
           /\ \A j \in (i + 1)..Len(regs) : regs[j].Offset # off].Name

\* C4: LeftHeavy is the number of distinct offsets of regs1 that regs2
\* lacks, RightHeavy the number of distinct offsets of regs2 that regs1
\* lacks.
C4_HeavyCounts ==
    rc.pc = "done" =>
       /\ result.LeftHeavy = Cardinality(OffsetsOf(rc.regs1) \ OffsetsOf(rc.regs2))
       /\ result.RightHeavy = Cardinality(OffsetsOf(rc.regs2) \ OffsetsOf(rc.regs1))

\* C5: run_compare is called only for offsets present in both groups, on
\* (name of the regs2 register, name of the regs1 register) with
\* fallback_fuzzy set, at most once per offset; when the loops are over it
\* has been called exactly once for each common offset, and runs is the
\* number of common offsets.
C5_OneRunPerCommonOffset ==
    rc.pc # "idle" =>
       /\ \A k \in 1..Len(rc.calls) :
             /\ rc.calls[k].off \in CommonOffsets
             /\ rc.calls[k].word_a = NameAt(rc.regs2, rc.calls[k].off)
             /\ rc.calls[k].word_b = NameAt(rc.regs1, rc.calls[k].off)
             /\ rc.calls[k].fallback_fuzzy
             /\ \A m \in 1..Len(rc.calls) : rc.calls[m].off = rc.calls[k].off => m = k
       /\ runs <= Len(rc.calls)
       /\ (rc.pc \in {"summary", "done"} =>
              /\ {rc.calls[k].off : k \in 1..Len(rc.calls)} = CommonOffsets
              /\ runs = Cardinality(CommonOffsets))

\* a pass has returned in which one offset was common and held two
\* registers of different names in regs2, and each group had an offset of
\* its own
C5_Witness ==
    /\ rc.pc = "done"
    /\ runs = 1
    /\ OffsetsOf(rc.regs1) \ OffsetsOf(rc.regs2) # {}
    /\ OffsetsOf(rc.regs2) \ OffsetsOf(rc.regs1) # {}
    /\ \E i \in 1..(Len(rc.regs2) - 1) :
          /\ rc.regs2[i].Offset = rc.regs2[i + 1].Offset
          /\ rc.regs2[i].Name # rc.regs2[i + 1].Name
          /\ rc.regs2[i].Offset \in CommonOffsets

\* a Python number lies in [0, 100]
InPercentRange(v) ==
    IF v.kind = "int" THEN v.val >= 0 /\ v.val <= 100
    ELSE v.dbl.bits = << >> \/ (v.dbl.sign = 1 /\ DblCeil(v.dbl) <= 100)

\* C6: Unmatched is the int 100 when run_compare was never run, else the
\* float (entries of the unmatched list * 100) / runs; it lies in [0, 100].
C6_UnmatchedField ==
    rc.pc = "done" =>
       /\ (runs = 0 => result.Unmatched = PyInt(100))
       /\ (runs # 0 => result.Unmatched = PyFloat(DblDiv(Len(unmatched) * 100, runs)))
       /\ (runs = 0 <=> CommonOffsets = {})
       /\ Len(unmatched) <= runs
       /\ InPercentRange(result.Unmatched)

\* a pass has returned that ran nothing and reported 100
C6_Witness ==
    /\ rc.pc = "done"
    /\ Len(rc.regs1) > 0
    /\ Len(rc.regs2) > 0
    /\ runs = 0
    /\ result.Unmatched = PyInt(100)

\* C7: Avg is the int 0 when the best-match map is empty, else the float
\* (sum of the scores of its entries) / (number of its entries).
C7_AvgField ==
    rc.pc = "done" =>
       /\ (DOMAIN best_matches = {} => result.Avg = PyInt(0))
       /\ (DOMAIN best_matches # {} =>
              result.Avg = PyFloat(DblDiv(SumMatch(best_matches, DOMAIN best_matches),
                                          Cardinality(DOMAIN best_matches))))

\* a pass has returned with two best-match records of different scores
C7_Witness ==
    /\ rc.pc = "done"
    /\ \E p, q \in DOMAIN best_matches : best_matches[p].percent < best_matches[q].percent
    /\ result.Avg.kind = "float"

\* no run_compare call of the pass is in progress
BetweenCalls == rc.pc \in {"loop2", "summary", "done"}

\* a Python number is the int 0 or lies in [1, 100]
ZeroOrAtLeastOne(v) ==
    IF v.kind = "int" THEN v.val = 0 \/ (v.val >= 1 /\ v.val <= 100)
    ELSE /\ v.dbl.bits # << >>
         /\ v.dbl.sign = 1
         /\ MantBits + v.dbl.exp >= 1
         /\ DblCeil(v.dbl) <= 100

\* C28: during compare_register_group_layout, whenever no run_compare call
\* is in progress every entry of best_matches has a score of at least 1 and
\* unmatched has at most runs entries; the returned Avg is 0 or lies in
\* [1, 100] and the returned Unmatched lies in [0, 100].
C28_ScoresBetweenCalls ==
    /\ BetweenCalls =>
          /\ \A pair \in DOMAIN best_matches : best_matches[pair].percent >= 1
          /\ Len(unmatched) <= runs
    /\ rc.pc = "done" =>
          /\ ZeroOrAtLeastOne(result.Avg)
          /\ InPercentRange(result.Unmatched)

\* a pass has returned in which one pair matched and another got no score
\* above 0 from any of the five comparators
C28_Witness ==
    /\ rc.pc = "done"
    /\ Len(unmatched) > 0
    /\ DOMAIN best_matches # {}
    /\ result.Avg.kind = "float"
    /\ \E k \in 1..Len(produced) :
          /\ produced[k].match.percent = 0
          /\ produced[k].pair \notin DOMAIN best_matches

\* the calls of the pass that compared the name pair
CallsOn(pair) ==
    {k \in 1..Len(rc.calls) : <<rc.calls[k].word_a, rc.calls[k].word_b>> = pair}

\* C29: whenever no run_compare call is in progress, the entries of
\* best_matches plus the entries of unmatched are at most runs, and fewer
\* than runs exactly when a name pair that has a best-match entry was
\* compared at more than one common offset; the returned Avg is then a mean
\* over the distinct pairs and Unmatched a percentage over all runs.
C29_KeyedByNamePair ==
    /\ BetweenCalls =>
          /\ Cardinality(DOMAIN best_matches) + Len(unmatched) <= runs
          /\ (Cardinality(DOMAIN best_matches) + Len(unmatched) < runs
                <=> \E pair \in DOMAIN best_matches : Cardinality(CallsOn(pair)) > 1)
          /\ \A k \in 1..Len(rc.calls) : rc.calls[k].off \in CommonOffsets
    /\ (rc.pc = "done" /\ DOMAIN best_matches # {}) =>
          /\ result.Avg = PyFloat(DblDiv(SumMatch(best_matches, DOMAIN best_matches),
                                         Cardinality(DOMAIN best_matches)))
          /\ result.Unmatched = PyFloat(DblDiv(Len(unmatched) * 100, runs))

\* a pass has returned in which one matching name pair sat at two common
\* offsets and a pair without a match at a third
C29_Witness ==
    /\ rc.pc = "done"
    /\ runs = 3
    /\ Cardinality(DOMAIN best_matches) = 1
    /\ Len(unmatched) = 1
    /\ \E pair \in DOMAIN best_matches : Cardinality(CallsOn(pair)) = 2

(***************************************************************************)
(* Properties of MatchType, under SpecMT.                                  *)
(***************************************************************************)
\* the least integer not below a / b, for a >= 0 and b > 0
CeilDiv(a, b) == (a + b - 1) \div b

\* C8: MatchType's score is 100 for True, 0 for False, p for an integer p
\* in [0, 100], and ceil(f * 100) for a fraction f in [0, 1].
C8_ScoreOfArgument ==
    (mt_arg # None /\ mt_made.raised = "none") =>
       /\ (mt_arg.percent.kind = "bool" =>
              mt_made.obj.percent = (IF mt_arg.percent.val THEN 100 ELSE 0))
       /\ (mt_arg.percent.kind = "int" => mt_made.obj.percent = mt_arg.percent.val)
       /\ (mt_arg.percent.kind = "float" /\ mt_arg.percent.num >= 0
              /\ mt_arg.percent.num <= mt_arg.percent.den =>
              mt_made.obj.percent = CeilDiv(100 * mt_arg.percent.num, mt_arg.percent.den))

\* C9: constructing a MatchType raises, and gives no object, when the
\* argument is no bool, int or float, and when the percent it converts to
\* is below 0 or above 100; an object that is constructed has its percent
\* in [0, 100].
C9_ConstructionErrors ==
    mt_arg # None =>
       /\ (mt_arg.percent.kind \notin {"bool", "int", "float"} =>
              mt_made.raised = "TypeError")
       /\ (mt_arg.percent.kind \in {"bool", "int", "float"} =>
              (mt_made.raised = "ValueError" <=>
                  (ConvertPercent(mt_arg.percent) < 0 \/ ConvertPercent(mt_arg.percent) > 100)))
       /\ (mt_made.raised # "none" => DOMAIN mt_made = {"raised"})
       /\ (mt_made.raised = "none" =>
              mt_made.obj.percent >= 0 /\ mt_made.obj.percent <= 100)

\* a float above 1 was handed in and ValueError raised
C9_Witness ==
    /\ mt_arg # None
    /\ mt_arg.percent.kind = "float"
    /\ mt_arg.percent.num > mt_arg.percent.den
    /\ mt_made.raised = "ValueError"

\* C10: == and < on two MatchType objects are == and < on their percents,
\* whatever their words, fuzzy flags and comparator names; exactly one of
\* a < b, a == b, a > b holds, and <= and >= agree with them.
C10_OrderByPercent ==
    mt_ops # None =>
       /\ (mt_cmp.eq <=> mt_ops.a.percent = mt_ops.b.percent)
       /\ (mt_cmp.lt <=> mt_ops.a.percent < mt_ops.b.percent)
       /\ (mt_cmp.gt <=> mt_ops.a.percent > mt_ops.b.percent)
       /\ (mt_cmp.le <=> (mt_cmp.lt \/ mt_cmp.eq))
       /\ (mt_cmp.ge <=> (mt_cmp.gt \/ mt_cmp.eq))

\* two objects of one percent that differ in word, fuzzy flag and
\* comparator name have compared equal
C10_Witness ==
    /\ mt_ops # None
    /\ mt_ops.a.percent = mt_ops.b.percent
    /\ mt_ops.a.word_a # mt_ops.b.word_a
    /\ mt_ops.a.fuzzy_match # mt_ops.b.fuzzy_match
    /\ mt_ops.a.comp_name # mt_ops.b.comp_name
    /\ mt_cmp.eq

(***************************************************************************)
(* Properties of get_word_synonyms, under SpecSyn.                         *)
(***************************************************************************)
\* the members of a synonym group that are not equal to the word a
RECURSIVE OthersOf(_, _, _)
OthersOf(row, k, a) ==
    IF k > Len(row) THEN << >>
    ELSE (IF Lower(row[k]) = Lower(a) THEN << >> ELSE <<row[k]>>)
         \o OthersOf(row, k + 1, a)

\* the groups from the i-th on that have a member equal to a, each without
\* the members equal to a
RECURSIVE GroupsOf(_, _)
GroupsOf(i, a) ==
    IF i > Len(SYNONYMS) THEN << >>
    ELSE (IF \E k \in 1..Len(SYNONYMS[i]) : Lower(SYNONYMS[i][k]) = Lower(a)
          THEN OthersOf(SYNONYMS[i], 1, a) ELSE << >>)
         \o GroupsOf(i + 1, a)

\* C12: without vowel stripping, get_word_synonyms(w) yields w first, then,
\* for each synonym group in table order that has a member equal to w
\* without regard to case, the members of that group in group order except
\* those equal to w, and nothing else.
C12_SynonymsOfWord ==
    (syn # None /\ syn.pc = "done" /\ ~syn.delete_vowels)
        => WordsOf(syn.out) = <<syn.a>> \o GroupsOf(1, syn.a)

\* the synonyms of "tx" have been generated: the word itself and the three
\* other members of its group
C12_Witness ==
    /\ syn # None
    /\ syn.pc = "done"
    /\ ~syn.delete_vowels
    /\ syn.a = <<"t","x">>
    /\ Len(syn.out) = 4
    /\ syn.out[2].word = <<"T","r","a","n","s","m","i","t">>

\* C13: with vowel stripping, every stripped form that get_word_synonyms
\* yields, of the input or of a member of a group, is longer than the
\* cutoff of one character.
C13_NoShortStrippedForm ==
    (syn # None /\ syn.delete_vowels)
        => \A k \in 1..Len(syn.out) :
              syn.out[k].by \in {"a_del", "helper"}
                 => Len(syn.out[k].word) > vowels_cutoff

(***************************************************************************)
(* Properties of WordGen, under SpecWG.                                    *)
(***************************************************************************)
\* the Cartesian product of the groups of a bag, as sentences
Product(bag) ==
    { s \in [1..Len(bag) -> UNION { Range(bag[i]) : i \in 1..Len(bag) }] :
         \A i \in 1..Len(bag) : s[i] \in Range(bag[i]) }

\* C14: on a fresh generator, gen_possible_words returns exactly the
\* Cartesian product of the groups passed to add_tokens, every choice once;
\* no sentence when a group is empty or when no group is passed.
C14_CartesianProduct ==
    (wg # None /\ wg.pc = "returned")
        => IF Len(wg.bag) = 0
           THEN wg.returned = << >>
           ELSE /\ Range(wg.returned) = Product(wg.bag)
                /\ Len(wg.returned) = Cardinality(Product(wg.bag))

(***************************************************************************)
(* Properties of the tokenizers, under SpecTK.                             *)
(***************************************************************************)
\* the number of characters before the k-th token of a token sequence
RECURSIVE OffsetOf(_, _)
OffsetOf(tokens, k) ==
    IF k <= 1 THEN 0
    ELSE OffsetOf(tokens, k - 1) + Len(tokens[k - 1].token)

\* an atomic token with the given text stands at the given offset
AtomicAt(tokens, text, offset) ==
    \E k \in 1..Len(tokens) :
        /\ tokens[k] = Token(text, TRUE)
        /\ OffsetOf(tokens, k) = offset

\* C15: a stage of run_pipeline leaves every token that is atomic before it
\* in the token sequence, atomic, with the same text and at the same
\* place in the text, so every token atomic after some stage is in the
\* final sequence.
C15_AtomicTokensKept ==
    [][(tk # None /\ tk' # None) =>
          \A k \in 1..Len(tk.tokens) :
             tk.tokens[k].atomic
                => AtomicAt(tk'.tokens, tk.tokens[k].token,
                            OffsetOf(tk.tokens, k))]_vars

\* the default pipeline has run on "I2C" with the name 2C: the atomic 2C
\* is in the result though the numbers were split off after it was found
C15_Witness ==
    /\ tk # None
    /\ tk.pc = "returned"
    /\ tk.pipeline[1] = "Name"
    /\ tk.word = <<"I","2","C">>
    /\ tk.tokens = <<Token(<<"I">>, FALSE), Token(<<"2","C">>, TRUE)>>

\* the name occurs in the word from the character after offset
OccursAt(name, word, offset) ==
    /\ offset + Len(name) <= Len(word)
    /\ SubSeq(word, offset + 1, offset + Len(name)) = name

\* two stretches of text have a character in common
Overlap(p, lp, q, lq) == p < q + lq /\ q < p + lp

\* C16: when occurrences of two names of the list overlap in the text, the
\* later name of the list is not emitted there, and the earlier one is
\* emitted as an atomic token, unless a name before it, or another
\* occurrence of itself, overlaps it.
C16_FirstNameWins ==
    (tk # None /\ tk.stage = 1 /\ tk.pipeline[1] = "Name")
        => \A i, j \in 1..Len(tk.names) : \A p, q \in 0..Len(tk.word) :
              (/\ i < j
               /\ OccursAt(tk.names[i], tk.word, p)
               /\ OccursAt(tk.names[j], tk.word, q)
               /\ Overlap(p, Len(tk.names[i]), q, Len(tk.names[j])))
                 => /\ ~AtomicAt(tk.tokens, tk.names[j], q)
                    /\ (\A h \in 1..i : \A r \in 0..Len(tk.word) :
                          (/\ OccursAt(tk.names[h], tk.word, r)
                           /\ Overlap(p, Len(tk.names[i]), r, Len(tk.names[h])))
                             => (h = i /\ r = p))
                         => AtomicAt(tk.tokens, tk.names[i], p)

(***************************************************************************)
(* Properties of MatchSimple.match, under SpecMS.                          *)
(***************************************************************************)
\* the positions at which both words have a token and the two tokens are
\* synonym-equal
PairedMatches(tokens_a, tokens_b) ==
    { k \in 1..Len(tokens_a) :
         k <= Len(tokens_b) /\ compare_words(tokens_a[k], tokens_b[k], FALSE) }

\* C11: for token sequences of lengths n_a and n_b, not both 0,
\* MatchSimple.match returns the score ceil(100 * m / max(n_a, n_b)), m
\* being the number of positions whose paired tokens are synonym-equal.
C11_SimpleScore ==
    (ms # None /\ ms.pc = "returned"
       /\ Len(ms.tokens_a) + Len(ms.tokens_b) > 0)
        => /\ ms.result.raised = "none"
           /\ ms.result.obj.percent =
                 CeilDiv(100 * Cardinality(PairedMatches(ms.tokens_a, ms.tokens_b)),
                         PyMax2(Len(ms.tokens_a), Len(ms.tokens_b)))

\* C20: a position where one word has a token and the other has none is
\* not counted as matched, whatever the text of the token.
C20_PaddingNeverMatched ==
    (ms # None /\ ms.i >= 1
       /\ (ms.i > Len(ms.tokens_a) \/ ms.i > Len(ms.tokens_b)))
        => ~ms.is_matched

\* what match gives on a MatchSimple object that was never used before
FreshResult(word_a, word_b) ==
    LET n == PyMax2(Len(TokensOfWord[word_a]), Len(TokensOfWord[word_b]))
        m == Cardinality({k \in 1..n :
                            CompareToken(TokensOfWord[word_a], TokensOfWord[word_b], k)})
    IN  IF n = 0 THEN [raised |-> "ZeroDivisionError"]
        ELSE MatchTypeInit(FloatArg(m, n), word_a, word_b, FALSE)

\* C22: the comparator is reset before each invocation: it starts every
\* pass over the tokens with both counters at 0, and what it returns for a
\* pair of words is what a new object returns for that pair, however many
\* invocations the object has behind it.
C22_ResetBeforeEachInvocation ==
    ms # None =>
       /\ ms.tokens_parsed = ms.i
       /\ ms.matched_exact <= ms.i
       /\ (ms.pc = "returned" => ms.result = FreshResult(ms.word_a, ms.word_b))

\* a second invocation of an object has returned a score other than the
\* one a first invocation left behind in its counters
C22_Witness ==
    /\ ms # None
    /\ ms.pc = "returned"
    /\ ms.calls = 2
    /\ ms.result.raised = "none"
    /\ ms.result.obj.percent = 50
    /\ ms.tokens_parsed = 2

(***************************************************************************)
(* Properties of match_most_similar, under SpecMM.                         *)
(***************************************************************************)
\* C17: given exactly one CompareResult, match_most_similar returns it,
\* having built no decision matrix and done no step of the multi-criteria
\* computation.
C17_SingleResultUntouched ==
    (mm # None /\ mm.pc = "returned" /\ Len(mm.comparison_results) = 1)
        => /\ mm.returned = mm.comparison_results[1]
           /\ mm.dm = None
           /\ mm.steps = << >>

(***************************************************************************)
(* Properties of a session's logs, under Spec.                             *)
(***************************************************************************)
\* the pairs on the unmatched list
UnmatchedPairs == { unmatched[k] : k \in 1..Len(unmatched) }

\* the results produced so far for a pair
ProducedFor(pair) == { k \in 1..Len(produced) : produced[k].pair = pair }

\* C21: a pair on the unmatched list has had no comparator result of a
\* score above 0 in the session, in any run_compare call.
C21_UnmatchedNeverScored ==
    \A pair \in UnmatchedPairs :
        \A k \in ProducedFor(pair) : produced[k].match.percent = 0

\* the results produced so far by comparators of a name, in the order
\* produced
RECURSIVE ProducedBy(_, _)
ProducedBy(name, k) ==
    IF k = 0 THEN << >>
    ELSE IF produced[k].name = name
    THEN Append(ProducedBy(name, k - 1), produced[k].match)
    ELSE ProducedBy(name, k - 1)

\* C25: the match log kept under a comparator name holds every MatchType
\* produced so far by comparators of that name, in the order produced.
C25_LogKeepsEveryMatch ==
    \A name \in DOMAIN matches :
        matches[name] = ProducedBy(name, Len(produced))

\* C27: a run_compare call that has no comparator to invoke, for a pair
\* without a best-match entry, ends in a KeyError at the del of line 145,
\* with the run counted and the pair appended to the unmatched list; no
\* other call ends in a KeyError.
C27_NoComparatorKeyError ==
    [][/\ (/\ gen.pc = "created"
           /\ Len(comparators) = 0
           /\ (~gen.fallback_fuzzy \/ Len(fuzzy_comparators) = 0)
           /\ <<gen.word_a, gen.word_b>> \notin DOMAIN best_matches)
          => /\ gen'.pc = "KeyError"
             /\ runs' = runs + 1
             /\ unmatched' = Append(unmatched, <<gen.word_a, gen.word_b>>)
             /\ best_matches' = best_matches
             /\ yielded' = << >>
       /\ (gen.pc # "KeyError" /\ gen'.pc = "KeyError")
          => /\ gen.pc = "created"
             /\ Len(unmatched') = Len(unmatched) + 1]_vars

\* a call with the fuzzy fallback off and only a fuzzy comparator
\* registered has failed on the del
C27_Witness ==
    /\ gen.pc = "KeyError"
    /\ ~gen.fallback_fuzzy
    /\ Len(fuzzy_comparators) > 0
    /\ runs >= 1
    /\ unmatched[Len(unmatched)] = <<gen.word_a, gen.word_b>>

(***************************************************************************)
(* Properties of an abandoned generator, under SpecLazy.                   *)
(***************************************************************************)
\* C26: when the caller stops iterating before the generator is exhausted,
\* the pair is not appended to the unmatched list and its best-match entry
\* stays, whatever its score; the run is counted by the first next(), not
\* by the call of run_compare.
C26_LazyBookkeeping ==
    [][/\ (gen.pc = "suspended" /\ gen'.pc = "closed")
          => /\ unmatched' = unmatched
             /\ best_matches' = best_matches
             /\ <<gen.word_a, gen.word_b>> \in DOMAIN best_matches'
             /\ runs' = runs
       /\ (gen.pc # "created" /\ gen'.pc = "created") => runs' = runs
       /\ (gen.pc = "created" /\ gen'.pc # "created") => runs' = runs + 1]_vars

\* a generator was dropped after a first result of score 0: the pair has a
\* best-match entry of score 0 and is not on the unmatched list
C26_Witness ==
    /\ gen.pc = "closed"
    /\ Len(yielded) = 1
    /\ Len(comparators) + Len(fuzzy_comparators) >= 2
    /\ best_matches[<<gen.word_a, gen.word_b>>].percent = 0
    /\ <<gen.word_a, gen.word_b>> \notin UnmatchedPairs

(***************************************************************************)
(* Properties of words without tokens, under SpecEmpty.                    *)
(***************************************************************************)
\* neither word of the pair has a token
Tokenless(pair) == Tokens(pair[1]) = << >> /\ Tokens(pair[2]) = << >>

\* the pair of the current run_compare call
CurrentPair == <<gen.word_a, gen.word_b>>

\* a run_compare call has ended with the division error of MatchSimple
DivisionRaised == gen.pc = "ZeroDivisionError"

\* the step in which the error leaves run_compare
RaisingStep == gen.pc \in {"created", "suspended"} /\ gen'.pc = "ZeroDivisionError"

\* C30 as stated: after the error the pair has no best-match entry
C30_NoBestMatchEntry ==
    DivisionRaised => CurrentPair \notin DOMAIN best_matches

\* what holds of the state a step leads to
C30_AfterStep ==
    /\ \A k \in 1..Len(produced) :
          produced[k].name = "MatchSimple" => ~Tokenless(produced[k].pair)
    /\ DivisionRaised =>
          /\ Tokenless(CurrentPair)
          /\ runs >= 1
          /\ (yielded # << >> => CurrentPair \in DOMAIN best_matches)
          /\ \A k \in 1..Len(yielded) :
                yielded[k][1] # "MatchSimple" /\ yielded[k][2].percent = 0
          /\ (CurrentPair \in DOMAIN best_matches
                 => best_matches[CurrentPair].percent = 0)
    /\ rc.pc # "idle" =>
          /\ (rc.pc = "raised" <=> DivisionRaised)
          /\ (DivisionRaised =>
                 /\ yielded = << >>
                 /\ CurrentPair \notin DOMAIN best_matches
                 /\ runs = Len(rc.calls)
                 /\ result = None)
          /\ \A k \in 1..Len(rc.calls) :
                Tokenless(<<rc.calls[k].word_a, rc.calls[k].word_b>>)
                   => k = Len(rc.calls) /\ rc.pc \in {"running", "raised"}

\* C30: MatchSimple returns no MatchType for a pair of words without tokens
\* but raises ZeroDivisionError, and for every other pair it returns one.
\* The error leaves run_compare in a step that has counted the run, adds
\* nothing to unmatched and writes nothing to best_matches or to the logs;
\* the pair has a best-match entry, of score 0, whenever a comparator
\* registered ahead of MatchSimple has yielded in this call, which never
\* happens in compare_register_group_layout: there the pair has no entry,
\* the error ends the pass at the first pair of names without tokens, and
\* no result is returned.
C30_DivisionErrorPropagates ==
    [][/\ C30_AfterStep'
       /\ RaisingStep =>
             /\ runs' = runs + (IF gen.pc = "created" THEN 1 ELSE 0)
             /\ unmatched' = unmatched
             /\ best_matches' = best_matches
             /\ matches' = matches
             /\ produced' = produced
       /\ rc.pc # "raised"]_vars

\* a register-group comparison has been aborted by the error at its second
\* common offset, after a first pair went to the unmatched list
C30_Witness ==
    /\ rc.pc = "raised"
    /\ DivisionRaised
    /\ Len(rc.calls) = 2
    /\ runs = 2
    /\ Len(unmatched) = 1
    /\ Len(rc.offs2.keys) = 3

(***************************************************************************)
(* Properties of MatchRelaxed and MatchFirstLetters, under SpecMR.         *)
(***************************************************************************)
\* the positions at which both filtered sequences have a token and a
\* strict MatchRelaxed finds the two tokens equal
RelaxedMatches(tokens_a, tokens_b) ==
    { k \in 1..PyMin2(Len(tokens_a), Len(tokens_b)) :
         StrictTokenTable[tokens_a[k]][tokens_b[k]] }

\* C23: a strict MatchRelaxed returns the score ceil(100 * m / max(f_a,
\* f_b)), f_a and f_b being the lengths of the filtered token sequences and
\* m the number of positions below min(f_a, f_b) whose tokens are equal;
\* the tokens beyond min(f_a, f_b) are not compared.
C23_RelaxedScore ==
    (mr # None /\ mr.cls = "MatchRelaxed" /\ ~mr.is_fuzzy /\ mr.pc = "returned")
        => /\ mr.tokens_parsed = PyMin2(Len(mr.tokens_a), Len(mr.tokens_b))
           /\ mr.result.raised = "none"
           /\ mr.result.obj.percent =
                 IF mr.max_total_tokens = 0 THEN 0
                 ELSE CeilDiv(100 * Cardinality(RelaxedMatches(mr.tokens_a, mr.tokens_b)),
                              PyMax2(Len(mr.tokens_a), Len(mr.tokens_b)))

\* C24: when the filtered token sequence of either word is empty, match of
\* MatchRelaxed and of MatchFirstLetters, strict or fuzzy, raises nothing
\* and returns NoMatch for the two words, of score 0.
C24_EmptyFilteredNoMatch ==
    (mr # None /\ mr.pc = "returned" /\ (mr.tokens_a = << >> \/ mr.tokens_b = << >>))
        => /\ mr.result.raised = "none"
           /\ mr.result.obj.percent = 0
           /\ mr.result.obj = NoMatch(mr.word_a, mr.word_b)

\* a fuzzy MatchFirstLetters has returned for a word that is only the
\* peripheral's name, so that nothing of it is left, and a word with tokens
C24_Witness ==
    /\ mr # None
    /\ mr.pc = "returned"
    /\ mr.cls = "MatchFirstLetters"
    /\ mr.is_fuzzy
    /\ mr.word_a = PeripheralNames[1]
    /\ mr.tokens_a = << >>
    /\ Len(mr.tokens_b) = 2
    /\ mr.sentences_a = << >>
    /\ Len(mr.sentences_b) > 1

=========================================================================
